---- MODULE Spec2Model ----
(***************************************************************************)
(* umlbox: the guest supervisor (init.c, PID 1 of the UML guest), the host *)
(* orchestrator (the umlbox script) and the configuration image that       *)
(* passes between them.                                                    *)
(*                                                                         *)
(*   Spec      the guest supervisor: main() and handle_run() of init.c     *)
(*   SpecHost  the host's supervision of the guest process                 *)
(*   SpecRead  readall() of init.c                                         *)
(*   SpecImg   the image the host writes                                   *)
(***************************************************************************)
EXTENDS Integers, Sequences, FiniteSets, TLC

(* ------------------------------ bounds --------------------------------- *)

\* longest tty_raw, mount and run lists of a Configuration
MaxTty == 1
MaxMount == 2
MaxRun == 2
\* largest device, in blocks, behind /ubda
MaxBlocks == 1
\* size_t arithmetic wraps at 2^64; the model keeps the wrap with a modulus
\* that is, as in the program, far above every count it reads
SizeMod == 65536
\* largest --timeout, in seconds, and largest exit status of the guest
MaxTimeout == 2
MaxStatus == 1
\* largest count and file size given to readall on its own
MaxCount == 4
\* longest serialized Config, in bytes
MaxPayload == 1020
\* most entries of each repeated field of a Config that is sent through the
\* image
MaxItems == 2
\* most --mount, --mount-write, --translate and --translate-write options
\* on one command line, all together
MaxSpecs == 2
\* most env entries and most Limits of the Run whose child is followed
MaxEnv == 2
MaxLimit == 1
\* most Limits of the Run whose set_limits is followed call by call
MaxRlimits == 2

(* ------------------------- program constants --------------------------- *)

\* sizeof hdr: two 32-bit words
HdrSize == 8
\* the block size of the ubd device
BLOCK == 512
\* the grace window after each token, in seconds
Grace == 5
\* Popen.returncode of a process that SIGKILL ended
Killed == -9

Min(a, b) == IF a < b THEN a ELSE b

VARIABLES
    \* ---- guest supervisor (init.c) ----
    ubda_magic,      \* first word of the image: "deadbeef" or "other"
    ubda,            \* the rest of the device behind /ubda
    pc,              \* the supervisor's position in main()/handle_run()
    hdr,             \* hdr[] as read: [magic_ok, len]
    stored,          \* bytes of data[] that readall filled
    cfg,             \* the decoded Config
    i,               \* index of main()'s current loop
    log,             \* what the supervisor has done so far, in order
    diag,            \* the message fail() printed, "" if none
    procs,           \* every process forked so far, by pid
    cat,             \* handle_run's local: pid of the cat auxiliary, -1 if none
    child,           \* handle_run's local: pid of the main child
    child_running,
    cat_running,
    timed_out,
    hard,            \* the last control byte read was 'Y'
    returned,        \* what each handle_run call returned to main, in order
    sigchld_pending, \* a SIGCHLD is pending while blocked
    ctrl,            \* bytes waiting on fd 0, the control channel
    sent,            \* tokens the host has written so far
    pipes,           \* runs whose cat_pipe ends the supervisor still holds
    \* ---- host orchestrator (umlbox) ----
    h_pc,            \* the host's position in main()
    h_timeout,       \* args.timeout
    h_now,           \* seconds since the guest was started
    h_deadline,      \* when the current uml.wait(timeout=...) expires
    h_returncode,    \* uml.returncode: [set, val], set = FALSE for None
    h_events,        \* tokens written and signals sent, with their times
    uml,             \* the guest kernel process: "none", "running", "dead"
    uml_status,      \* its exit status once dead
    uml_sigkill,     \* SIGKILL has been sent to its process group
    \* ---- readall(fd, buf, count) on its own ----
    rd_pc,           \* "call" before, "done" after
    rd_count,        \* count
    rd_avail,        \* bytes in the file before end-of-file
    rd_split,        \* whether read may return less than is there
    rd_res,          \* [ret, stored]: its result, the bytes put in buf
    \* ---- the image the host writes ----
    im_pc,           \* the host's position in lines 214-245
    im_payload,      \* cfg.SerializeToString(), a sequence of bytes
    im_cfg,          \* the host's variable cfg
    im_file,         \* what has been written to the temporary file
    \* ---- a Config on its way from the host to the guest ----
    t_pc,            \* the guest's position in lines 110-126
    t_cfg,           \* the host's Config message
    t_hdr,           \* hdr[] as the guest read it: [magic_ok, len]
    t_data,          \* the bytes the guest read into data
    t_out,           \* what config__unpack returned
    t_diag,          \* the message fail() printed, "" if none
    \* ---- the host assembles the Config (umlbox, lines 156-208) ----
    as_pc,           \* the host's position
    as_args,         \* args, and what the host's system answers
    as_mounts,       \* the dict mounts
    as_cfg,          \* cfg: [tty_raw, mount, run]
    \* ---- one Run's main child, from the supervisor's boot to its exec ----
    c_pc,            \* position in main() and handle_run()
    c_run,           \* the Run
    c_in_init,       \* in_init as the process at c_pc sees it
    c_id,            \* handle_run's locals uid and gid: [uid, gid]
    c_cred,          \* the process's credentials: [uid, gid]
    c_environ,       \* the process's environment, name to value
    c_path,          \* the child's local path: [null, s]
    c_tries,         \* the execv calls made so far
    c_exec_errno,    \* the child's local exec_errno
    c_image,         \* the program the process runs
    c_log,           \* what the process has printed
    c_exit,          \* its exit status, -1 while it lives
    c_off,           \* this process has powered the guest off
    c_trace,         \* the steps the child has taken, in order
    \* ---- one Run's stdio: the supervisor, the cat auxiliary, the child ----
    io_run,          \* the Run: [input, output, error, cat_output]
    io_sup,          \* the supervisor's position in handle_run
    io_cat,          \* the cat auxiliary: [pc, fd, root]
    io_child,        \* the main child: [pc, fd, root]
    \* ---- set_limits in one Run's main child ----
    lim_pc,          \* the child's position
    lim_limit,       \* the Run's Limits: [resource, soft, hard]
    lim_calls,       \* the setrlimit calls made: [resource, cur, max, ret]
    \* ---- the wait loop of the init with its own timer ----
    tv_pc,           \* "check", "wait", "eintr", "done" or "off"
    tv_run,          \* the Run: [timeout, cat_output]
    timeout_phase,   \* what handle_timeout counts up
    timeout_timer,   \* "none", or armed for "term" or "kill", or "idle"
    tv_child_running,
    tv_cat_running,
    tv_procs         \* child and cat: [st, sigs]

guestVars == <<ubda_magic, ubda, pc, hdr, stored, cfg, i, log, diag, procs, cat,
               child, child_running, cat_running, timed_out, hard,
               returned, sigchld_pending, ctrl, sent, pipes>>

(* ------------------------------ Config --------------------------------- *)

\* a Run, as far as the supervisor's scheduling reads it
Runs == [daemon : BOOLEAN, cat_output : BOOLEAN]

SeqsUpTo(S, n) == UNION {[1..k -> S] : k \in 0..n}

\* config.proto: Config
Configs ==
    [random : BOOLEAN, n_tty_raw : 0..MaxTty, n_mount : 0..MaxMount,
     run : SeqsUpTo(Runs, MaxRun)]

\* what zero payload bytes decode to
EmptyCfg == [random |-> FALSE, n_tty_raw |-> 0, n_mount |-> 0, run |-> <<>>]

\* declared payload lengths: nothing, what fills one block with the header,
\* what fills two
PayloadLens == {0, BLOCK - HdrSize, 2 * BLOCK - HdrSize}

\* the device behind /ubda: hdr[1], its size in blocks, and what its payload
\* bytes decode to when all of them are read; a payload that the device does
\* not hold to its end decodes to nothing
Images ==
    {im \in [len : PayloadLens, nblocks : 0..MaxBlocks, wellformed : BOOLEAN,
             payload : Configs] :
        /\ HdrSize + im.len > im.nblocks * BLOCK => ~im.wellformed
        /\ (im.len = 0 /\ im.wellformed) => im.payload = EmptyCfg
        /\ ~im.wellformed => im.payload = EmptyCfg}

NoImage == [len |-> 0, nblocks |-> 0, wellformed |-> FALSE, payload |-> EmptyCfg]
NoHdr == [magic_ok |-> FALSE, len |-> 0]

Ev(op, n) == [op |-> op, n |-> n]

(* ------------------------------ readall -------------------------------- *)

\* init.c:371, the loop's bookkeeping of the bytes read so far (a size_t)
GotAfter(got, chunk) == (got - chunk) % SizeMod

\* what one read(fd, at, want) may return when avail bytes are left before
\* end-of-file: on a stream any positive part of them, on the block device
\* all of them
ReadChunks(want, avail, split) ==
    IF avail = 0 THEN {0}
    ELSE IF split THEN 1..Min(want, avail)
    ELSE {Min(want, avail)}

\* readall(fd, buf, count), from the state (got, at - buf) of its loop: every
\* [ret, stored] it can return, stored being the bytes it put in buf
RECURSIVE ReadallFrom(_, _, _, _, _)
ReadallFrom(count, avail, split, got, at) ==
    IF ~(got < count)
    THEN {[ret |-> count, stored |-> at]}
    ELSE {[ret |-> -1, stored |-> at]}
         \cup UNION {IF chunk = 0
                     THEN {[ret |-> -1, stored |-> at]}
                     ELSE ReadallFrom(count, avail - chunk, split,
                                      GotAfter(got, chunk), at + chunk) :
                     chunk \in ReadChunks(count - got, avail, split)}

Readall(count, avail, split) == ReadallFrom(count, avail, split, 0, 0)

(* ----------------------- guest supervisor: main ------------------------ *)

imgV == <<ubda_magic, ubda>>
rdV == <<hdr, stored>>
runV == <<cat, child, child_running, cat_running, timed_out, hard, returned>>
envV == <<ctrl, sent>>
procV == <<procs, sigchld_pending, pipes>>

\* a loop that leaves out its last element
LoopMoreShort(k, n) == k + 1 < n

\* the test of main's loops, lines 134, 137, 140
LoopMore(k, n) == k < n

\* no header check
HeaderUnchecked(h) == TRUE

\* the header check, line 114
HeaderAccepted(h) == h.magic_ok

\* a fail() that prints and returns
FailGoesOn(msg) ==
    /\ pc' = pc
    /\ diag' = msg
    /\ log' = log

\* fail() in the supervisor (in_init = 1): print the message, power off
Fail(msg) ==
    /\ pc' = "off"
    /\ diag' = msg
    /\ log' = Append(log, Ev("off", 0))

GuestInit ==
    /\ ubda_magic \in {"deadbeef", "other"}
    /\ ubda \in Images
    /\ pc = "boot"
    /\ hdr = NoHdr
    /\ stored = 0
    /\ cfg = EmptyCfg
    /\ i = 0
    /\ log = <<>>
    /\ diag = ""
    /\ procs = <<>>
    /\ cat = -1
    /\ child = -1
    /\ child_running = FALSE
    /\ cat_running = FALSE
    /\ timed_out = FALSE
    /\ hard = FALSE
    /\ returned = <<>>
    /\ sigchld_pending = FALSE
    /\ ctrl = <<>>
    /\ sent = 0
    /\ pipes = {}

\* main, lines 73-104: device nodes, environment, /host, the SIGCHLD handler
Bootstrap ==
    /\ pc = "boot"
    /\ \/ /\ pc' = "open"
          /\ UNCHANGED <<log, diag>>
       \/ \E msg \in {"mknod /console", "open", "mknod /ubda", "mknod /null",
                      "mknod /ttyN", "clearenv", "mkdir /host", "sigaction"} :
            Fail(msg)
    /\ UNCHANGED <<imgV, rdV, cfg, i, procV, runV, envV>>

\* main, lines 110-117: open /ubda, read the header, check the magic
ReadHeader ==
    /\ pc = "open"
    /\ \/ Fail("open /ubda") /\ UNCHANGED hdr
       \/ \E r \in Readall(HdrSize, ubda.nblocks * BLOCK, FALSE) :
            IF r.ret = -1
            THEN Fail("read /ubda header") /\ UNCHANGED hdr
            ELSE \E h \in [magic_ok : BOOLEAN, len : PayloadLens] :
                   \* words readall did not fill keep what the stack held
                   /\ r.stored >= 4 => h.magic_ok = (ubda_magic = "deadbeef")
                   /\ r.stored >= HdrSize => h.len = ubda.len
                   /\ hdr' = h
                   /\ IF HeaderAccepted(h)
                      THEN pc' = "read_cfg" /\ UNCHANGED <<log, diag>>
                      ELSE Fail("bad /ubda header")
    /\ UNCHANGED <<imgV, stored, cfg, i, procV, runV, envV>>

\* main, lines 119-120: read hdr[1] bytes of payload
ReadConfig ==
    /\ pc = "read_cfg"
    /\ \/ Fail("malloc config") /\ UNCHANGED stored
       \/ \E r \in Readall(hdr.len, ubda.nblocks * BLOCK - HdrSize, FALSE) :
            IF r.ret = -1
            THEN Fail("read config") /\ UNCHANGED stored
            ELSE /\ stored' = r.stored
                 /\ pc' = "decode"
                 /\ UNCHANGED <<log, diag>>
    /\ UNCHANGED <<imgV, hdr, cfg, i, procV, runV, envV>>

\* config__unpack(0, hdr[1], data): the Configs it may return. Bytes of
\* data that readall did not fill are whatever malloc handed out.
Unpack(len, filled, image) ==
    IF filled >= len
    THEN IF image.wellformed /\ image.len = len THEN {image.payload} ELSE {}
    ELSE Configs

\* whether config__unpack may return NULL
UnpackMayFail(len, filled, image) ==
    filled < len \/ Unpack(len, filled, image) = {}

\* main, lines 121-125: decode, close the device
Decode ==
    /\ pc = "decode"
    /\ \/ /\ UnpackMayFail(hdr.len, stored, ubda)
          /\ Fail("bad config")
          /\ UNCHANGED <<cfg, ubda>>
       \/ \E c \in Unpack(hdr.len, stored, ubda) :
            /\ cfg' = c
            /\ log' = Append(log, Ev("decode", 0))
            /\ ubda' = NoImage
            /\ pc' = "random"
            /\ UNCHANGED diag
    /\ UNCHANGED <<ubda_magic, rdV, i, procV, runV, envV>>

\* main, lines 127-132, and handle_random; hdr and data go out of scope
Random ==
    /\ pc = "random"
    /\ IF cfg.random
       THEN \/ /\ log' = Append(log, Ev("random", 0))
               /\ pc' = "tty"
               /\ UNCHANGED diag
            \/ \E msg \in {"mknod /random", "open /random", "ioctl /random"} :
                 Fail(msg)
       ELSE /\ pc' = "tty"
            /\ UNCHANGED <<log, diag>>
    /\ hdr' = NoHdr
    /\ stored' = 0
    /\ UNCHANGED <<imgV, cfg, i, procV, runV, envV>>

\* main, lines 134-135, and handle_tty_raw
TtyRaw ==
    /\ pc = "tty"
    /\ IF LoopMore(i, cfg.n_tty_raw)
       THEN \/ /\ log' = Append(log, Ev("tty", i + 1))
               /\ i' = i + 1
               /\ UNCHANGED <<pc, diag>>
            \/ \E msg \in {"open tty_raw", "tcgetattr", "tcsetattr"} :
                 Fail(msg) /\ UNCHANGED i
       ELSE /\ pc' = "mount"
            /\ i' = 0
            /\ UNCHANGED <<log, diag>>
    /\ UNCHANGED <<imgV, rdV, cfg, procV, runV, envV>>

\* main, lines 137-138, and handle_mount
Mount ==
    /\ pc = "mount"
    /\ IF LoopMore(i, cfg.n_mount)
       THEN \/ /\ log' = Append(log, Ev("mount", i + 1))
               /\ i' = i + 1
               /\ UNCHANGED <<pc, diag>>
            \/ \E msg \in {"chdir", "mount"} :
                 Fail(msg) /\ UNCHANGED i
       ELSE /\ pc' = "run"
            /\ i' = 0
            /\ UNCHANGED <<log, diag>>
    /\ UNCHANGED <<imgV, rdV, cfg, procV, runV, envV>>

(* -------------------- guest supervisor: handle_run --------------------- *)

NoRun == [daemon |-> FALSE, cat_output |-> FALSE]
\* the Run that handle_run is executing
run == IF i + 1 \in DOMAIN cfg.run THEN cfg.run[i + 1] ELSE NoRun

\* fork(): the child gets the next pid
Fork(kind) ==
    Append(procs, [run |-> i + 1, kind |-> kind, st |-> "running", term |-> 0,
                   status |-> 0])
NewPid == Len(procs) + 1

\* SIGCHLD left unblocked in handle_run
BlockedNever == FALSE

\* SIGCHLD is blocked from line 198 to line 291 or 332
Blocked == pc \in {"fork", "daemon", "close", "waitpid", "ppoll", "ret"}

Zombies == {p \in DOMAIN procs : procs[p].st = "zombie"}
Children == {p \in DOMAIN procs : procs[p].st # "reaped"}

\* handle_run, lines 193-228: block SIGCHLD, start the cat auxiliary
StartRun ==
    /\ pc = "run"
    /\ LoopMore(i, Len(cfg.run))
    /\ IF run.cat_output
       THEN \/ /\ procs' = Fork("cat")
               /\ cat' = NewPid
               /\ pipes' = pipes \cup {i + 1}
               /\ pc' = "fork"
               /\ UNCHANGED <<log, diag>>
            \/ \E msg \in {"pipe (cat)", "fork"} :
                 Fail(msg) /\ UNCHANGED <<procs, cat, pipes>>
       ELSE /\ cat' = -1
            /\ pc' = "fork"
            /\ UNCHANGED <<procs, pipes, log, diag>>
    /\ UNCHANGED <<imgV, rdV, cfg, i, child, child_running, cat_running,
                   timed_out, hard, returned, sigchld_pending, envV>>

\* a parent that waits for daemons too
AfterForkWait(daemon) == "close"

\* line 290: where the parent goes after the fork
AfterFork(daemon) == IF daemon THEN "daemon" ELSE "close"

\* handle_run, lines 230-288: fork the main child
ForkChild ==
    /\ pc = "fork"
    /\ \/ /\ procs' = Fork("child")
          /\ child' = NewPid
          /\ log' = Append(log, Ev("run", i + 1))
          /\ pc' = AfterFork(run.daemon)
          /\ UNCHANGED diag
       \/ Fail("fork") /\ UNCHANGED <<procs, child>>
    /\ UNCHANGED <<imgV, rdV, cfg, i, cat, child_running, cat_running,
                   timed_out, hard, returned, sigchld_pending, pipes, envV>>

\* a main that goes on to the next Run whatever handle_run returned
ReturnIgnored(val) ==
    /\ returned' = Append(returned, val)
    /\ sigchld_pending' = FALSE
    /\ pc' = "run"
    /\ i' = i + 1

\* main, lines 141-143: handle_run returned val
ReturnToMain(val) ==
    /\ returned' = Append(returned, val)
    /\ sigchld_pending' = FALSE
    /\ IF val
       THEN pc' = "sync" /\ UNCHANGED i
       ELSE pc' = "run" /\ i' = i + 1

\* handle_run, lines 290-293: a daemon is not waited for
DaemonReturn ==
    /\ pc = "daemon"
    /\ ReturnToMain(FALSE)
    /\ UNCHANGED <<imgV, rdV, cfg, log, diag, procs, pipes, cat, child,
                   child_running, cat_running, timed_out, hard, envV>>

\* handle_run, lines 295-303: close the pipe, enter the wait loop
ClosePipe ==
    /\ pc = "close"
    /\ pipes' = IF cat # -1 THEN pipes \ {i + 1} ELSE pipes
    /\ timed_out' = FALSE
    /\ hard' = FALSE
    /\ child_running' = TRUE
    /\ cat_running' = run.cat_output
    /\ pc' = "waitpid"
    /\ UNCHANGED <<imgV, rdV, cfg, i, log, diag, procs, sigchld_pending, cat,
                   child, returned, envV>>

\* an exit test that forgets the cat auxiliary
LoopDoneChild(cr, car) == ~cr

\* the loop's exit test, line 311
LoopDone(cr, car) == ~cr /\ ~car

\* handle_run, lines 305-314: waitpid(-1, 0, WNOHANG)
Waitpid ==
    /\ pc = "waitpid"
    /\ IF Zombies = {}
       THEN /\ IF Children = {}
               THEN Fail("wait")
               ELSE pc' = "ppoll" /\ UNCHANGED <<log, diag>>
            /\ UNCHANGED <<procs, child_running, cat_running>>
       ELSE \E waited \in Zombies :
              LET cr == child_running /\ waited # child
                  car == cat_running /\ waited # cat
              IN /\ procs' = [procs EXCEPT ![waited].st = "reaped",
                                            ![waited].status = 0]
                 /\ child_running' = cr
                 /\ cat_running' = car
                 /\ pc' = IF LoopDone(cr, car) THEN "ret" ELSE "waitpid"
                 /\ UNCHANGED <<log, diag>>
    /\ UNCHANGED <<imgV, rdV, cfg, i, sigchld_pending, pipes, cat, child,
                   timed_out, hard, returned, envV>>

\* handle_run, lines 316-319: ppoll is interrupted by SIGCHLD
PpollEintr ==
    /\ pc = "ppoll"
    /\ sigchld_pending
    /\ sigchld_pending' = FALSE
    /\ pc' = "waitpid"
    /\ UNCHANGED <<imgV, rdV, cfg, i, log, diag, procs, pipes, runV, envV>>

\* SIGTERM whatever child_running says
MayTermAlways(cr) == TRUE

\* whether line 328 lets the SIGTERM go out
MayTerm(cr) == cr

\* a read that takes whatever the control channel holds
AfterReadAll(c) == <<>>

\* line 324 and umlbox, lines 265, 271: read(0, hard_timeout, 2) takes the
\* two bytes of one token, b'N\n' or b'Y\n'; what follows stays in the pipe
AfterRead(c) == Tail(c)

\* handle_run, lines 316, 323-329: the control channel is readable
PpollReady ==
    /\ pc = "ppoll"
    /\ ctrl # <<>>
    /\ \/ /\ ctrl' = AfterRead(ctrl)
          /\ timed_out' = TRUE
          /\ IF Head(ctrl) = "Y"
             THEN /\ hard' = TRUE
                  /\ pc' = "ret"
                  /\ UNCHANGED <<procs, log, diag>>
             ELSE /\ hard' = FALSE
                  /\ IF MayTerm(child_running)
                     THEN IF procs[child].st = "reaped"
                          THEN Fail("kill") /\ UNCHANGED procs
                          ELSE /\ procs' = [procs EXCEPT ![child].term = @ + 1]
                               /\ pc' = "waitpid"
                               /\ UNCHANGED <<log, diag>>
                     ELSE /\ pc' = "waitpid"
                          /\ UNCHANGED <<procs, log, diag>>
       \/ /\ Fail("read (timeout signal)")
          /\ UNCHANGED <<ctrl, timed_out, hard, procs>>
    /\ UNCHANGED <<imgV, rdV, cfg, i, sigchld_pending, pipes, cat, child,
                   child_running, cat_running, returned, sent>>

\* a handle_run that reports only the hard-timeout byte
ReturnValueHard(t, h) == h

\* line 333: return timed_out
ReturnValue(t, h) == t

\* handle_run, lines 332-333: leave the loop, return timed_out
Return ==
    /\ pc = "ret"
    /\ ReturnToMain(ReturnValue(timed_out, hard))
    /\ UNCHANGED <<imgV, rdV, cfg, log, diag, procs, pipes, cat, child,
                   child_running, cat_running, timed_out, hard, envV>>

\* main, lines 140, 146-147: no Run is left, or one timed out
Shutdown ==
    /\ \/ pc = "sync"
       \/ pc = "run" /\ ~LoopMore(i, Len(cfg.run))
    /\ log' = log \o <<Ev("sync", 0), Ev("off", 0)>>
    /\ pc' = "off"
    /\ UNCHANGED <<imgV, rdV, cfg, i, diag, procV, runV, envV>>

(* ------------------ the guest supervisor's environment ----------------- *)

\* in_init in a process that has gone through line 214 or 232
InInitKept == TRUE
InInitAfterFork == FALSE

\* a process of the guest exits; init gets a SIGCHLD
ProcExit ==
    /\ pc # "off"
    /\ \E p \in DOMAIN procs :
         /\ procs[p].st = "running"
         /\ procs' = [procs EXCEPT ![p].st = "zombie"]
    /\ sigchld_pending' = (Blocked \/ sigchld_pending)
    /\ UNCHANGED <<imgV, rdV, cfg, pc, i, log, diag, pipes, runV, envV>>

\* how a forked process ends: its program exits with status 0 or with
\* another, the exec loop gives up (lines 286-287), or a step before the
\* exec calls fail
HowExit == {"exit 0", "exit 1", "report", "fail"}

\* the same exit with its status, which init can wait for until it has
\* reaped the process with waitpid(-1, 0, WNOHANG) (line 305); fail (lines
\* 342-347) powers the guest off in a process that has in_init
ExitStatus ==
    /\ pc # "off"
    /\ \E p \in DOMAIN procs, how \in HowExit :
         /\ procs[p].st = "running"
         /\ procs' = [procs EXCEPT ![p].st = "zombie",
                                   ![p].status = IF how = "exit 0" THEN 0 ELSE 1]
         /\ IF how = "fail" /\ InInitAfterFork
            THEN pc' = "off" /\ log' = Append(log, Ev("off", 0))
            ELSE UNCHANGED <<pc, log>>
    /\ sigchld_pending' = (Blocked \/ sigchld_pending)
    /\ UNCHANGED <<imgV, rdV, cfg, i, diag, pipes, runV, envV>>

\* main at line 140, the Mounts done: a decoded Config of Runs alone
RunsInit ==
    /\ ubda_magic = "deadbeef"
    /\ ubda = NoImage
    /\ pc = "run"
    /\ hdr = NoHdr
    /\ stored = 0
    /\ cfg \in {c \in Configs : ~c.random /\ c.n_tty_raw = 0 /\ c.n_mount = 0}
    /\ i = 0
    /\ log = <<Ev("decode", 0)>>
    /\ diag = ""
    /\ procs = <<>>
    /\ cat = -1
    /\ child = -1
    /\ child_running = FALSE
    /\ cat_running = FALSE
    /\ timed_out = FALSE
    /\ hard = FALSE
    /\ returned = <<>>
    /\ sigchld_pending = FALSE
    /\ ctrl = <<>>
    /\ sent = 0
    /\ pipes = {}

\* the host writes the soft token, then the hard token (umlbox, 265, 271)
HostToken ==
    /\ pc # "off"
    /\ sent < 2
    /\ ctrl' = Append(ctrl, IF sent = 0 THEN "N" ELSE "Y")
    /\ sent' = sent + 1
    /\ UNCHANGED <<imgV, rdV, cfg, pc, i, log, diag, procV, runV>>

\* the host's token arrives while the supervisor is not in the wait loop
\* of a foreground Run
EarlyToken ==
    /\ pc \notin {"waitpid", "ppoll"}
    /\ HostToken

(* --------------------------- host orchestrator ------------------------ *)

hostVars == <<h_pc, h_timeout, h_now, h_deadline, h_returncode, h_events, uml,
              uml_status, uml_sigkill>>

None == [set |-> FALSE, val |-> 0]
\* an event, when it happened and whether the host had by then seen the
\* guest exit
HEv(ev) == [ev |-> ev, at |-> h_now, seen |-> h_returncode.set]

HostInit ==
    /\ h_pc = "start"
    /\ h_timeout \in (0 - 1)..MaxTimeout
    /\ h_now = 0
    /\ h_deadline = 0
    /\ h_returncode = None
    /\ h_events = <<>>
    /\ uml = "none"
    /\ uml_status = 0
    /\ uml_sigkill = FALSE

\* a wait that gives up at once
WaitUntilNow(t) == h_now

\* when a uml.wait(timeout=t) that starts now gives up
WaitUntil(t) == h_now + t

\* umlbox, lines 256-261: start the guest, enter the first wait
Popen ==
    /\ h_pc = "start"
    /\ uml' = "running"
    /\ IF h_timeout = 0
       THEN h_pc' = "wait" /\ UNCHANGED h_deadline
       ELSE h_pc' = "wait1" /\ h_deadline' = WaitUntil(h_timeout)
    /\ UNCHANGED <<h_timeout, h_now, h_returncode, h_events, uml_status,
                   uml_sigkill>>

\* a uml.wait(...) sees that the guest has exited; every later
\* "if uml.returncode is None" is then false (lines 258-278)
WaitReturns ==
    /\ h_pc \in {"wait", "wait1", "wait2", "wait3", "wait4"}
    /\ uml = "dead"
    /\ h_returncode' = [set |-> TRUE, val |-> uml_status]
    /\ h_pc' = "close"
    /\ UNCHANGED <<h_timeout, h_now, h_deadline, h_events, uml, uml_status,
                   uml_sigkill>>

\* TimeoutExpired: the wait's deadline passed before it saw the guest exit
Expired == h_now >= h_deadline

\* lines 262-267: the first wait expired; the soft token. Without a control
\* pipe (timeout < 0) ctrl_w is None and os.write raises TypeError.
SoftTimeout ==
    /\ h_pc = "wait1"
    /\ Expired
    /\ ~h_returncode.set
    /\ IF h_timeout > 0
       THEN /\ h_events' = Append(h_events, HEv("N"))
            /\ h_deadline' = WaitUntil(Grace)
            /\ h_pc' = "wait2"
       ELSE /\ h_pc' = "crashed"
            /\ UNCHANGED <<h_events, h_deadline>>
    /\ UNCHANGED <<h_timeout, h_now, h_returncode, uml, uml_status, uml_sigkill>>

\* lines 268-273: the second wait expired; the hard token
HardTimeout ==
    /\ h_pc = "wait2"
    /\ Expired
    /\ ~h_returncode.set
    /\ h_events' = Append(h_events, HEv("Y"))
    /\ h_deadline' = WaitUntil(Grace)
    /\ h_pc' = "wait3"
    /\ UNCHANGED <<h_timeout, h_now, h_returncode, uml, uml_status, uml_sigkill>>

\* the last stage without its killpg
KillpgForgotten ==
    /\ h_pc = "wait3"
    /\ Expired
    /\ ~h_returncode.set
    /\ h_pc' = "wait4"
    /\ UNCHANGED <<h_timeout, h_now, h_deadline, h_returncode, h_events, uml,
                   uml_status, uml_sigkill>>

\* lines 274-278: the third wait expired; SIGKILL to the process group
Killpg ==
    /\ h_pc = "wait3"
    /\ Expired
    /\ ~h_returncode.set
    /\ h_events' = Append(h_events, HEv("KILL"))
    /\ uml_sigkill' = TRUE
    /\ h_pc' = "wait4"
    /\ UNCHANGED <<h_timeout, h_now, h_deadline, h_returncode, uml, uml_status>>

\* lines 280-282: close cmd_fd, stop the relay; main returns
Close ==
    /\ h_pc = "close"
    /\ h_pc' = "done"
    /\ UNCHANGED <<h_timeout, h_now, h_deadline, h_returncode, h_events, uml,
                   uml_status, uml_sigkill>>

\* lines 307-308: the script calls main() and drops its value, so the
\* interpreter ends with status 0, or with 1 after an uncaught exception
HostExitStatus == IF h_pc = "crashed" THEN 1 ELSE 0

\* the guest exits by itself, whenever it likes
UmlExit ==
    /\ uml = "running"
    /\ h_pc \notin {"crashed", "done"}
    /\ uml' = "dead"
    /\ uml_status' \in 0..MaxStatus
    /\ UNCHANGED <<h_pc, h_timeout, h_now, h_deadline, h_returncode, h_events,
                   uml_sigkill>>

\* SIGKILL ends the guest
UmlKilled ==
    /\ uml = "running"
    /\ uml_sigkill
    /\ uml' = "dead"
    /\ uml_status' = Killed
    /\ UNCHANGED <<h_pc, h_timeout, h_now, h_deadline, h_returncode, h_events,
                   uml_sigkill>>

\* a second passes while the host sits in a timed wait on a running guest
Tick ==
    /\ h_pc \in {"wait1", "wait2", "wait3"}
    /\ uml = "running"
    /\ h_now < h_deadline
    /\ h_now' = h_now + 1
    /\ UNCHANGED <<h_pc, h_timeout, h_deadline, h_returncode, h_events, uml,
                   uml_status, uml_sigkill>>

(* ------------------------- readall on its own ------------------------- *)

readVars == <<rd_pc, rd_count, rd_avail, rd_split, rd_res>>

ReadInit ==
    /\ rd_pc = "call"
    /\ rd_count \in 0..MaxCount
    /\ rd_avail \in 0..MaxCount
    /\ rd_split \in BOOLEAN
    /\ rd_res = [ret |-> 0, stored |-> 0]

\* init.c, lines 359-374
ReadallCall ==
    /\ rd_pc = "call"
    /\ rd_res' \in Readall(rd_count, rd_avail, rd_split)
    /\ rd_pc' = "done"
    /\ UNCHANGED <<rd_count, rd_avail, rd_split>>

(* --------------------- the image the host writes ----------------------- *)

imageVars == <<im_pc, im_payload, im_cfg, im_file>>

Zeros(n) == [j \in 1..n |-> 0]

\* 0xdeadbeef as struct.pack('=L', ...) lays it out
MagicBytes == <<239, 190, 173, 222>>
LE32(n) == <<n % 256, (n \div 256) % 256, (n \div 65536) % 256,
             (n \div 16777216) % 256>>

\* umlbox, line 215: struct.pack('=LL', 0xdeadbeef, len(cfg)) + cfg
PackHeader(c) == MagicBytes \o LE32(Len(c)) \o c

\* padding without the test of line 216
PadAlways(c) == c \o Zeros(BLOCK - (Len(c) % BLOCK))

\* umlbox, lines 216-217
PadBlock(c) ==
    IF Len(c) % BLOCK # 0 THEN c \o Zeros(BLOCK - (Len(c) % BLOCK)) ELSE c

ImageInit ==
    /\ im_pc = "serialize"
    /\ \E n \in 0..MaxPayload, fill \in 0..1 :
         im_payload = [j \in 1..n |-> (7 * j + fill) % 256]
    /\ im_cfg = <<>>
    /\ im_file = <<>>

\* line 214
Serialize ==
    /\ im_pc = "serialize"
    /\ im_cfg' = im_payload
    /\ im_pc' = "pack"
    /\ UNCHANGED <<im_payload, im_file>>

\* line 215
Pack ==
    /\ im_pc = "pack"
    /\ im_cfg' = PackHeader(im_cfg)
    /\ im_pc' = "pad"
    /\ UNCHANGED <<im_payload, im_file>>

\* lines 216-217
Pad ==
    /\ im_pc = "pad"
    /\ im_cfg' = PadBlock(im_cfg)
    /\ im_pc' = "write"
    /\ UNCHANGED <<im_payload, im_file>>

\* lines 243-245
WriteImage ==
    /\ im_pc = "write"
    /\ im_file' = im_cfg
    /\ im_pc' = "written"
    /\ UNCHANGED <<im_payload, im_cfg>>


(* ------------- a Config on its way from the host to the guest ---------- *)

tripVars == <<t_pc, t_cfg, t_hdr, t_data, t_out, t_diag>>

\* strings and blobs are sequences of bytes
TtyNames == {<<116, 49>>, <<99, 111, 110>>}
TripMounts == {[target |-> <<47>>, ro |-> TRUE], [target |-> <<47, 97>>, ro |-> FALSE]}
TripRuns == {[daemon |-> TRUE, cat_output |-> FALSE], [daemon |-> FALSE, cat_output |-> TRUE]}
Blobs == {<<>>, <<0>>, <<7, 0>>}

\* config.proto: Config, with Mount cut down to target and ro and Run to
\* daemon and cat_output
TripConfigs ==
    [tty_raw : SeqsUpTo(TtyNames, MaxItems),
     mount : SeqsUpTo(TripMounts, MaxItems),
     run : SeqsUpTo(TripRuns, MaxItems),
     random : Blobs]

NoCfg == [tty_raw |-> <<>>, mount |-> <<>>, run |-> <<>>, random |-> <<>>]

RECURSIVE Cat(_)
Cat(ss) == IF ss = <<>> THEN <<>> ELSE Head(ss) \o Cat(Tail(ss))

\* the protobuf wire format: a field is its key, field number * 8 + wire
\* type, and then a value; wire type 2 is a length and that many bytes, wire
\* type 0 a varint. Every length here is below 128, one byte. A proto3
\* scalar that has its default value is not written.
Key(field, wiretype) == field * 8 + wiretype
EncBytes(field, b) == <<Key(field, 2), Len(b)>> \o b
EncString(field, b) == IF b = <<>> THEN <<>> ELSE EncBytes(field, b)
EncBool(field, b) == IF b THEN <<Key(field, 0), 1>> ELSE <<>>

\* config.proto, lines 16-29
EncMount(m) == EncString(1, m.target) \o EncBool(5, m.ro)
\* config.proto, lines 32-62
EncRun(r) == EncBool(1, r.daemon) \o EncBool(8, r.cat_output)

\* umlbox, line 214: cfg.SerializeToString(), fields in field-number order,
\* the entries of a repeated field in list order
SerializeToString(c) ==
    Cat([k \in 1..Len(c.tty_raw) |-> EncBytes(1, c.tty_raw[k])])
    \o Cat([k \in 1..Len(c.mount) |-> EncBytes(2, EncMount(c.mount[k]))])
    \o Cat([k \in 1..Len(c.run) |-> EncBytes(3, EncRun(c.run[k]))])
    \o EncString(4, c.random)

\* the fields of a message, in the order they are in b; ok is FALSE when b
\* is not a sequence of fields (a field number 0, a value cut short, a wire
\* type other than 0 and 2)
RECURSIVE Fields(_)
Fields(b) ==
    IF b = <<>> THEN [ok |-> TRUE, f |-> <<>>]
    ELSE IF Len(b) < 2 \/ b[1] \div 8 = 0 \/ b[1] % 8 \notin {0, 2}
    THEN [ok |-> FALSE, f |-> <<>>]
    ELSE LET n == IF b[1] % 8 = 2 THEN b[2] ELSE 0
         IN IF Len(b) < 2 + n
            THEN [ok |-> FALSE, f |-> <<>>]
            ELSE LET rest == Fields(SubSeq(b, 3 + n, Len(b)))
                     val == IF b[1] % 8 = 2 THEN SubSeq(b, 3, 2 + n) ELSE b[2]
                 IN [ok |-> rest.ok,
                     f |-> <<[key |-> b[1], val |-> val]>> \o rest.f]

\* the values of the fields with this key, in order
Values(f, key) ==
    LET sel == SelectSeq(f, LAMBDA x : x.key = key)
    IN [k \in 1..Len(sel) |-> sel[k].val]

\* the last value of a field that is not repeated, its default if absent
Last(vs, default) == IF vs = <<>> THEN default ELSE vs[Len(vs)]

UnpackMount(b) ==
    LET f == Fields(b).f
    IN [target |-> Last(Values(f, Key(1, 2)), <<>>),
        ro |-> Last(Values(f, Key(5, 0)), 0) # 0]

UnpackRun(b) ==
    LET f == Fields(b).f
    IN [daemon |-> Last(Values(f, Key(1, 0)), 0) # 0,
        cat_output |-> Last(Values(f, Key(8, 0)), 0) # 0]

\* init.c, line 121: config__unpack(0, len, data); ok is FALSE for NULL
ConfigUnpack(len, data) ==
    LET top == Fields(SubSeq(data, 1, len))
        ms == Values(top.f, Key(2, 2))
        rs == Values(top.f, Key(3, 2))
    IN IF /\ top.ok
          /\ \A k \in DOMAIN ms : Fields(ms[k]).ok
          /\ \A k \in DOMAIN rs : Fields(rs[k]).ok
       THEN [ok |-> TRUE,
             cfg |-> [tty_raw |-> Values(top.f, Key(1, 2)),
                      mount |-> [k \in DOMAIN ms |-> UnpackMount(ms[k])],
                      run |-> [k \in DOMAIN rs |-> UnpackRun(rs[k])],
                      random |-> Last(Values(top.f, Key(4, 2)), <<>>)]]
       ELSE [ok |-> FALSE, cfg |-> NoCfg]

\* a 32-bit word of the header as the guest's processor reads it
U32(b) == b[1] + 256 * b[2] + 65536 * b[3] + 16777216 * b[4]

\* a read of everything up to the end of the first block
ReadLenBlock(h) == BLOCK - HdrSize

\* init.c, line 120: the count given to readall
ReadLen(h) == h.len

TripFail(msg) ==
    /\ t_pc' = "off"
    /\ t_diag' = msg

TripInit ==
    /\ t_pc = "open"
    /\ t_cfg \in TripConfigs
    /\ t_hdr = NoHdr
    /\ t_data = <<>>
    /\ t_out = NoCfg
    /\ t_diag = ""
    /\ im_pc = "serialize"
    /\ im_payload = SerializeToString(t_cfg)
    /\ im_cfg = <<>>
    /\ im_file = <<>>

\* main, lines 110-117, on the file the host wrote; the file is at least
\* one block, so a readall that succeeds has filled hdr
TripReadHeader ==
    /\ im_pc = "written"
    /\ t_pc = "open"
    /\ \/ TripFail("open /ubda") /\ UNCHANGED t_hdr
       \/ \E r \in Readall(HdrSize, Len(im_file), FALSE) :
            IF r.ret = -1
            THEN TripFail("read /ubda header") /\ UNCHANGED t_hdr
            ELSE LET h == [magic_ok |-> SubSeq(im_file, 1, 4) = MagicBytes,
                           len |-> U32(SubSeq(im_file, 5, 8))]
                 IN /\ t_hdr' = h
                    /\ IF HeaderAccepted(h)
                       THEN t_pc' = "read_cfg" /\ UNCHANGED t_diag
                       ELSE TripFail("bad /ubda header")
    /\ UNCHANGED <<t_cfg, t_data, t_out>>

\* main, lines 119-120; bytes of data beyond what was read are left out
TripReadConfig ==
    /\ t_pc = "read_cfg"
    /\ \/ TripFail("malloc config") /\ UNCHANGED t_data
       \/ \E r \in Readall(ReadLen(t_hdr), Len(im_file) - HdrSize, FALSE) :
            IF r.ret = -1
            THEN TripFail("read config") /\ UNCHANGED t_data
            ELSE /\ t_data' = SubSeq(im_file, HdrSize + 1, HdrSize + r.stored)
                 /\ t_pc' = "unpack"
                 /\ UNCHANGED t_diag
    /\ UNCHANGED <<t_cfg, t_hdr, t_out>>

\* main, lines 121-126; bytes of data that readall did not fill are
\* whatever malloc handed out
TripUnpack ==
    /\ t_pc = "unpack"
    /\ IF Len(t_data) < t_hdr.len
       THEN \/ TripFail("bad config") /\ UNCHANGED t_out
            \/ t_out' \in TripConfigs /\ t_pc' = "decoded" /\ UNCHANGED t_diag
       ELSE LET u == ConfigUnpack(t_hdr.len, t_data)
            IN IF u.ok
               THEN t_out' = u.cfg /\ t_pc' = "decoded" /\ UNCHANGED t_diag
               ELSE TripFail("bad config") /\ UNCHANGED t_out
    /\ UNCHANGED <<t_cfg, t_hdr, t_data>>


(* ----------------- the host assembles the Config ----------------------- *)

asmVars == <<as_pc, as_args, as_mounts, as_cfg>>

\* paths are sequences of bytes
PRoot == <<47>>  \* "/"
PA == <<47, 97>>  \* "/a"
PASlash == <<47, 97, 47>>  \* "/a/"
PAB == <<47, 97, 47, 98>>  \* "/a/b"
PTmp == <<47, 116, 109, 112>>  \* "/tmp"
PProc == <<47, 112, 114, 111, 99>>  \* "/proc"
PSys == <<47, 115, 121, 115>>  \* "/sys"
PUsr == <<47, 117, 115, 114>>  \* "/usr"
PBin == <<47, 98, 105, 110>>  \* "/bin"
PSbin == <<47, 115, 98, 105, 110>>  \* "/sbin"
PLib == <<47, 108, 105, 98>>  \* "/lib"
PLib32 == <<47, 108, 105, 98, 51, 50>>  \* "/lib32"
PLib64 == <<47, 108, 105, 98, 54, 52>>  \* "/lib64"
PEtcAlt == <<47, 101, 116, 99, 47, 97, 108, 116, 101, 114, 110, 97, 116, 105, 118, 101, 115>>  \* "/etc/alternatives"
PDev == <<47, 100, 101, 118>>  \* "/dev"
PHost == <<47, 104>>  \* "/h"

Slash == 47

\* line 167
BaseDirs == <<PUsr, PBin, PSbin, PLib, PLib32, PLib64, PEtcAlt, PDev>>
\* which of them os.path.isdir finds on the host
IsDirs == {{}, {PUsr, PLib64}, {BaseDirs[k] : k \in DOMAIN BaseDirs}}

\* what the user may write after --mount or --mount-write, or as GUEST
\* after --translate or --translate-write
UserSpecs == {PRoot, PASlash, PAB, PTmp}

\* how many specs each of the four options has
SpecCounts ==
    {n \in [1..4 -> 0..MaxSpecs] : n[1] + n[2] + n[3] + n[4] <= MaxSpecs}

Args ==
    UNION {[base_mounts : {b}, isdir : IF b THEN IsDirs ELSE {{}},
            mount : [1..n[1] -> UserSpecs],
            mount_write : [1..n[2] -> UserSpecs],
            translate : [1..n[3] -> UserSpecs],
            translate_write : [1..n[4] -> UserSpecs],
            relay : BOOLEAN, isatty : BOOLEAN] :
           n \in SpecCounts, b \in BOOLEAN}

NoArgs ==
    [base_mounts |-> FALSE, isdir |-> {}, mount |-> <<>>, mount_write |-> <<>>,
     translate |-> <<>>, translate_write |-> <<>>, relay |-> FALSE,
     isatty |-> FALSE]

NoAsmCfg == [tty_raw |-> <<>>, mount |-> <<>>, run |-> <<>>]
NoMounts == [k \in {} |-> 0]

\* os.path.abspath of an absolute path without . and ..: no slash at the end
Abspath(p) ==
    IF Len(p) > 1 /\ p[Len(p)] = Slash THEN SubSeq(p, 1, Len(p) - 1) ELSE p

\* lines 303-305
host_mount(target, host, ro) ==
    [target |-> target, source |-> "none", fstype |-> "hostfs",
     data |-> IF host # <<>> /\ host[Len(host)] = Slash THEN host
              ELSE Append(host, Slash),
     ro |-> ro, nosuid |-> TRUE]

\* lines 162-164
PseudoMount(target, fs) ==
    [target |-> target, source |-> fs, fstype |-> fs, data |-> <<>>,
     ro |-> FALSE, nosuid |-> FALSE]

\* mounts[key] = m
DictSet(d, key, m) == (key :> m) @@ d

\* mounts[key] = host_mount(...) for every spec of a list, in list order
RECURSIVE SetAll(_, _, _, _)
SetAll(d, specs, ro, translated) ==
    IF specs = <<>> THEN d
    ELSE LET spec == Head(specs)
             mdir == Abspath(spec)
             d1 == IF translated
                   THEN DictSet(d, spec, host_mount(spec, PHost, ro))
                   ELSE DictSet(d, mdir, host_mount(mdir, mdir, ro))
         IN SetAll(d1, Tail(specs), ro, translated)

\* the order of Python's strings, for strings of one length
LexLess(a, b) ==
    \E k \in DOMAIN a :
        /\ k \in DOMAIN b
        /\ a[k] < b[k]
        /\ \A j \in 1..(k - 1) : a[j] = b[j]

\* an order by the string alone
KeyLessLex(a, b) ==
    \/ LexLess(a, b)
    \/ Len(a) < Len(b) /\ a = SubSeq(b, 1, Len(a))

\* line 178: the order of the keys (len(m), m)
KeyLess(a, b) ==
    \/ Len(a) < Len(b)
    \/ Len(a) = Len(b) /\ LexLess(a, b)

\* line 178: sorted(keys, key=...)
RECURSIVE Sorted(_)
Sorted(S) ==
    IF S = {} THEN <<>>
    ELSE LET first == CHOOSE x \in S : \A y \in S \ {x} : KeyLess(x, y)
         IN <<first>> \o Sorted(S \ {first})

\* a relay for every command line
RelayAlways(a) == TRUE

\* line 184: if mudem_guest
Relay(a) == a.relay

AsmRun(cmd, arg, daemon, cat_output) ==
    [cmd |-> cmd, arg |-> arg, daemon |-> daemon, cat_output |-> cat_output]

AsmInit ==
    /\ as_pc = "start"
    /\ as_args \in Args
    /\ as_mounts = NoMounts
    /\ as_cfg = NoAsmCfg

\* lines 156-165
DefaultMounts ==
    /\ as_pc = "start"
    /\ as_cfg' = [as_cfg EXCEPT !.tty_raw =
                     IF as_args.isatty THEN <<>> ELSE <<"/tty1">>]
    /\ as_mounts' = DictSet(DictSet(DictSet(NoMounts,
                        PTmp, PseudoMount(PTmp, "tmpfs")),
                        PProc, PseudoMount(PProc, "proc")),
                        PSys, PseudoMount(PSys, "sysfs"))
    /\ as_pc' = "base"
    /\ UNCHANGED as_args

\* lines 166-169
BaseMounts ==
    /\ as_pc = "base"
    /\ as_mounts' =
          IF as_args.base_mounts
          THEN SetAll(as_mounts,
                      SelectSeq(BaseDirs, LAMBDA m : m \in as_args.isdir),
                      TRUE, FALSE)
          ELSE as_mounts
    /\ as_pc' = "mount"
    /\ UNCHANGED <<as_args, as_cfg>>

\* lines 170-173
HostMounts ==
    /\ as_pc = "mount"
    /\ as_mounts' = SetAll(SetAll(as_mounts, as_args.mount, TRUE, FALSE),
                           as_args.mount_write, FALSE, FALSE)
    /\ as_pc' = "translate"
    /\ UNCHANGED <<as_args, as_cfg>>

\* lines 174-177
Translates ==
    /\ as_pc = "translate"
    /\ as_mounts' = SetAll(SetAll(as_mounts, as_args.translate, TRUE, TRUE),
                           as_args.translate_write, FALSE, TRUE)
    /\ as_pc' = "sort"
    /\ UNCHANGED <<as_args, as_cfg>>

\* lines 178-179
SortMounts ==
    /\ as_pc = "sort"
    /\ LET keys == Sorted(DOMAIN as_mounts)
       IN as_cfg' = [as_cfg EXCEPT !.mount =
                        [k \in DOMAIN keys |-> as_mounts[keys[k]]]]
    /\ as_pc' = "run"
    /\ UNCHANGED <<as_args, as_mounts>>

\* lines 181-205; a malformed --env or --limit ends the host there
AddRuns ==
    /\ as_pc = "run"
    /\ \/ /\ as_cfg' =
               [as_cfg EXCEPT
                  !.tty_raw = IF Relay(as_args) THEN Append(@, "/tty2") ELSE @,
                  !.run = <<AsmRun("/sbin/ip", "addr add", FALSE, FALSE),
                            AsmRun("/sbin/ip", "link set", FALSE, FALSE)>>
                          \o (IF Relay(as_args)
                              THEN <<AsmRun("mudem", "1", TRUE, FALSE)>>
                              ELSE <<>>)
                          \o <<AsmRun("cmd", "", FALSE, ~as_args.isatty)>>]
          /\ as_pc' = "done"
       \/ /\ as_pc' = "error"
          /\ UNCHANGED as_cfg
    /\ UNCHANGED <<as_args, as_mounts>>


(* ------------------- one Run's main child, up to exec ------------------ *)

childVars == <<c_pc, c_run, c_in_init, c_id, c_cred, c_environ, c_path,
               c_tries, c_exec_errno, c_image, c_log, c_exit, c_off, c_trace>>

\* strings are sequences of pieces; ":", "/" are pieces of their own, and so
\* strchr finds them
Colon == ":"
Sep == "/"
PATH == <<"PATH">>
TERM == <<"TERM">>
HOME == <<"HOME">>
\* lines 43-44
DEFAULT_PATH == <<"/usr/local/bin", Colon, "/bin", Colon, "/usr/bin">>
DEFAULT_SHELL == <<"/bin/bash">>

\* what the kernel hands to init
BootEnv == (HOME :> <<Sep>>) @@ (<<"BOOT_IMAGE">> :> <<"linux">>)
\* lines 90-94
BaseEnv ==
    (PATH :> DEFAULT_PATH) @@ (TERM :> <<"linux">>) @@ (HOME :> <<"/tmp">>)

EnvVars ==
    {[key |-> <<"X">>, value |-> <<"1">>], [key |-> <<"X">>, value |-> <<"2">>],
     [key |-> <<>>, value |-> <<"1">>],
     [key |-> PATH, value |-> <<"a", Colon, "b">>],
     [key |-> PATH, value |-> <<"a", Colon>>]}

\* config.proto, line 57: an explicit id, or 0 for none
Ids == {0, 7}
\* config.proto, lines 71-82, and values that are no Resource
Resources == {0 - 1, 0, 9, 10}
Cmds == {<<"ls">>, <<Sep, "ls">>}
\* config.proto, lines 39-40: no working directory, or one
Cwds == {<<>>, <<Sep, "w">>}

ChildRuns ==
    [env : SeqsUpTo(EnvVars, MaxEnv), user : BOOLEAN, uid : Ids, gid : Ids,
     limit : SeqsUpTo(Resources, MaxLimit), cmd : Cmds, arg : {<< <<"-l">>, <<"x">> >>},
     cwd : Cwds]

NoChildRun ==
    [env |-> <<>>, user |-> FALSE, uid |-> 0, gid |-> 0, limit |-> <<>>,
     cmd |-> <<>>, arg |-> <<>>, cwd |-> <<>>]

\* what random() may return
RandomValues == {0, 994999, 2147483647}

IdRange == 995000
IdBase == 5000

\* an id that may be 0
DeriveIdLow(r) == r % IdRange

\* lines 203-204
DeriveId(r) == (r % IdRange) + IdBase

\* a setenv that keeps the value a name has
SetenvKeep(env, key, value) ==
    IF key = <<>> \/ \E k \in DOMAIN key : key[k] = "="
    THEN env
    ELSE env @@ (key :> value)

\* setenv(key, value, 1): EINVAL, and nothing set, for an empty name or one
\* with '='
Setenv(env, key, value) ==
    IF key = <<>> \/ \E k \in DOMAIN key : key[k] = "="
    THEN env
    ELSE (key :> value) @@ env

\* lines 245-246: some setenv of the loop returns -1, which nothing reads
SetenvFails(entries) ==
    \E j \in DOMAIN entries :
        \/ entries[j].key = <<>>
        \/ \E k \in DOMAIN entries[j].key : entries[j].key[k] = "="

\* lines 245-246
RECURSIVE SetenvAll(_, _)
SetenvAll(env, entries) ==
    IF entries = <<>> THEN env
    ELSE SetenvAll(Setenv(env, Head(entries).key, Head(entries).value),
                   Tail(entries))

NResourceMap == 10

\* a check of the range alone
ResourceInRange(r) == ~(r < 0 \/ r >= NResourceMap)

\* line 432: resource_map has the entries 1 to 9
ResourceValid(r) == ~(r < 0 \/ r >= NResourceMap \/ r \notin 1..9)

\* strchr(s, c): the index of the first c in s, 0 for none
Strchr(s, c) ==
    IF \E k \in DOMAIN s : s[k] = c
    THEN CHOOSE k \in DOMAIN s : s[k] = c /\ \A j \in 1..(k - 1) : s[j] # c
    ELSE 0

NoPath == [null |-> TRUE, s |-> <<>>]

\* lines 267-276: the file of this round and the path after it
NextFile(path, cmd) ==
    IF path.null THEN [file |-> cmd, path |-> path]
    ELSE LET colon == Strchr(path.s, Colon)
         IN IF colon # 0
            THEN [file |-> SubSeq(path.s, 1, colon - 1) \o <<Sep>> \o cmd,
                  path |-> [null |-> FALSE,
                            s |-> SubSeq(path.s, colon + 1, Len(path.s))]]
            ELSE [file |-> path.s \o <<Sep>> \o cmd,
                  path |-> [null |-> FALSE, s |-> <<>>]]

\* lines 278-285: whether the loop goes round again
Again(path, err) == err # "ENOEXEC" /\ ~path.null /\ path.s # <<>>

\* line 284, line 281
ExecErrno(old, err) == IF old # "EACCES" THEN err ELSE old


ExecErrs == {"ENOEXEC", "ENOENT", "EACCES"}
InitImage == [file |-> <<"init">>, argv |-> <<>>]

ChildInit ==
    /\ c_pc = "boot" /\ c_run \in ChildRuns /\ c_in_init = TRUE
    /\ c_id = [uid |-> 0, gid |-> 0] /\ c_cred = [uid |-> 0, gid |-> 0]
    /\ c_environ = BootEnv /\ c_path = NoPath /\ c_tries = <<>>
    /\ c_exec_errno = "0" /\ c_image = InitImage /\ c_log = <<>>
    /\ c_exit = 0 - 1 /\ c_off = FALSE /\ c_trace = <<>>

\* lines 342-347
ChildFail(msg) ==
    /\ c_log' = Append(c_log, msg)
    /\ IF c_in_init
       THEN c_off' = TRUE /\ c_pc' = "off" /\ c_exit' = c_exit
       ELSE c_off' = c_off /\ c_pc' = "exited" /\ c_exit' = 1

\* the variables a step that cannot fail leaves alone
childOutcome == <<c_log, c_exit, c_off>>

\* main, lines 90-94
MainEnv ==
    /\ c_pc = "boot"
    /\ \/ /\ c_environ' = Setenv(Setenv(Setenv(<<>>, PATH, BaseEnv[PATH]),
                                        TERM, BaseEnv[TERM]),
                                 HOME, BaseEnv[HOME])
          /\ c_pc' = "run"
          /\ UNCHANGED childOutcome
       \/ ChildFail("clearenv") /\ UNCHANGED c_environ
    /\ UNCHANGED <<c_run, c_in_init, c_id, c_cred, c_path, c_tries,
                   c_exec_errno, c_image, c_trace>>

\* handle_run, lines 200-205
Identity ==
    /\ c_pc = "run"
    /\ \E ru \in RandomValues, rg \in RandomValues :
         c_id' = [uid |-> IF c_run.user /\ c_run.uid = 0
                          THEN DeriveId(ru) ELSE c_run.uid,
                  gid |-> IF c_run.user /\ c_run.gid = 0
                          THEN DeriveId(rg) ELSE c_run.gid]
    /\ c_pc' = "fork"
    /\ UNCHANGED <<c_run, c_in_init, c_cred, c_environ, c_path, c_tries,
                   c_exec_errno, c_image, c_log, c_exit, c_off, c_trace>>

\* lines 230-232: from here on the process is the child
ForkMain ==
    /\ c_pc = "fork"
    /\ \/ /\ c_in_init' = InInitAfterFork
          /\ c_pc' = "stdio"
          /\ UNCHANGED childOutcome
       \/ ChildFail("fork") /\ UNCHANGED c_in_init
    /\ UNCHANGED <<c_run, c_id, c_cred, c_environ, c_path, c_tries,
                   c_exec_errno, c_image, c_trace>>

\* lines 234-243
Redirect ==
    /\ c_pc = "stdio"
    /\ \/ /\ c_pc' = "env"
          /\ c_trace' = Append(c_trace, "stdio")
          /\ UNCHANGED childOutcome
       \/ ChildFail("open") /\ UNCHANGED c_trace
    /\ UNCHANGED <<c_run, c_in_init, c_id, c_cred, c_environ, c_path,
                   c_tries, c_exec_errno, c_image>>

\* lines 245-246
SetEnv ==
    /\ c_pc = "env"
    /\ c_environ' = SetenvAll(c_environ, c_run.env)
    /\ c_trace' = Append(c_trace, IF SetenvFails(c_run.env)
                                  THEN "env, a setenv failed" ELSE "env")
    /\ c_pc' = "hostify"
    /\ UNCHANGED <<c_run, c_in_init, c_id, c_cred, c_path, c_tries,
                   c_exec_errno, c_image, c_log, c_exit, c_off>>

\* hostify, lines 401-410: its calls, each under MUST
HostifyCalls(r) ==
    <<"chdir root", "chroot">>
    \o (IF r.cwd # <<>> THEN <<"chdir cwd">> ELSE <<>>)
    \o (IF r.user THEN <<"setgid", "setuid">> ELSE <<>>)

\* the credentials after these calls
CredAfter(done) ==
    [uid |-> IF \E k \in DOMAIN done : done[k] = "setuid"
             THEN c_id.uid ELSE c_cred.uid,
     gid |-> IF \E k \in DOMAIN done : done[k] = "setgid"
             THEN c_id.gid ELSE c_cred.gid]

\* line 248 and hostify, lines 401-410
Hostify ==
    /\ c_pc = "hostify"
    /\ LET calls == HostifyCalls(c_run)
       IN \/ /\ c_cred' = CredAfter(calls)
             /\ c_trace' = c_trace \o calls
             /\ c_pc' = "limits"
             /\ UNCHANGED childOutcome
          \/ \E k \in DOMAIN calls :
               /\ ChildFail(calls[k])
               /\ c_cred' = CredAfter(SubSeq(calls, 1, k - 1))
               /\ c_trace' = c_trace \o SubSeq(calls, 1, k - 1)
    /\ UNCHANGED <<c_run, c_in_init, c_id, c_environ, c_path, c_tries,
                   c_exec_errno, c_image>>

\* line 249 and set_limits, lines 412-438
SetLimits ==
    /\ c_pc = "limits"
    /\ \/ /\ \A k \in DOMAIN c_run.limit : ResourceValid(c_run.limit[k])
          /\ c_pc' = "resolve"
          /\ c_trace' = Append(c_trace, "limits")
          /\ UNCHANGED childOutcome
       \/ /\ \E k \in DOMAIN c_run.limit : ~ResourceValid(c_run.limit[k])
          /\ ChildFail("set_limits")
          /\ UNCHANGED c_trace
       \/ /\ \E k \in DOMAIN c_run.limit :
               \A j \in 1..k : ResourceValid(c_run.limit[j])
          /\ ChildFail("setrlimit")
          /\ UNCHANGED c_trace
    /\ UNCHANGED <<c_run, c_in_init, c_id, c_cred, c_environ, c_path,
                   c_tries, c_exec_errno, c_image>>

\* lines 251-265
Resolve ==
    /\ c_pc = "resolve"
    /\ \/ /\ c_path' = IF Strchr(c_run.cmd, Sep) = 0
                       THEN [null |-> FALSE,
                             s |-> IF PATH \in DOMAIN c_environ
                                   THEN c_environ[PATH] ELSE DEFAULT_PATH]
                       ELSE NoPath
          /\ c_pc' = "try"
          /\ UNCHANGED childOutcome
       \/ ChildFail("malloc") /\ UNCHANGED c_path
    /\ UNCHANGED <<c_run, c_in_init, c_id, c_cred, c_environ, c_tries,
                   c_exec_errno, c_image, c_trace>>

\* lines 266-285: one round of the loop
Try ==
    /\ c_pc = "try"
    /\ LET nf == NextFile(c_path, c_run.cmd)
           argv == <<c_run.cmd>> \o c_run.arg
           shargv == <<DEFAULT_SHELL, nf.file>> \o c_run.arg
       IN /\ c_path' = nf.path
          /\ \E err \in ExecErrs \cup {"0"} :
               LET first == [file |-> nf.file, argv |-> argv, err |-> err]
               IN IF err = "0"
                  THEN /\ c_tries' = Append(c_tries, first)
                       /\ c_image' = [file |-> nf.file, argv |-> argv]
                       /\ c_pc' = "running"
                       /\ UNCHANGED c_exec_errno
                  ELSE IF err = "ENOEXEC"
                  THEN \E err2 \in ExecErrs \cup {"0"} :
                         /\ c_tries' = c_tries \o
                                <<first, [file |-> DEFAULT_SHELL,
                                          argv |-> shargv, err |-> err2]>>
                         /\ IF err2 = "0"
                            THEN /\ c_image' = [file |-> DEFAULT_SHELL,
                                                argv |-> shargv]
                                 /\ c_pc' = "running"
                                 /\ UNCHANGED c_exec_errno
                            ELSE /\ c_exec_errno' =
                                        ExecErrno(c_exec_errno, err2)
                                 /\ c_pc' = "report"
                                 /\ UNCHANGED c_image
                  ELSE /\ c_tries' = Append(c_tries, first)
                       /\ c_exec_errno' = ExecErrno(c_exec_errno, err)
                       /\ c_pc' = IF Again(nf.path, err)
                                  THEN "try" ELSE "report"
                       /\ UNCHANGED c_image
    /\ c_trace' = IF c_pc' = "running" THEN Append(c_trace, "exec")
                  ELSE c_trace
    /\ UNCHANGED <<c_run, c_in_init, c_id, c_cred, c_environ, c_log, c_exit,
                   c_off>>

\* lines 286-287
Report ==
    /\ c_pc = "report"
    /\ c_log' = Append(c_log, "?")
    /\ c_exit' = 1
    /\ c_pc' = "exited"
    /\ UNCHANGED <<c_run, c_in_init, c_id, c_cred, c_environ, c_path,
                   c_tries, c_exec_errno, c_image, c_off, c_trace>>


(* ---------------- one Run's stdio: supervisor, cat, child --------------- *)

stdioVars == <<io_run, io_sup, io_cat, io_child>>

\* the empty path, the special devices of the real root, and a path that is
\* none of them
IoPaths == {"", "/null", "/tty1", "/f"}
IoRuns ==
    [input : IoPaths, output : IoPaths, error : IoPaths, cat_output : BOOLEAN]

\* an open file description: the path and the root it was resolved under
Opened(path, root) == [kind |-> "file", path |-> path, root |-> root]
\* main, lines 74-76: init's own 0, 1 and 2
Console == Opened("/console", "/")
PipeRead == [kind |-> "pipe", path |-> "read end", root |-> ""]
PipeWrite == [kind |-> "pipe", path |-> "write end", root |-> ""]

NoProc == [pc |-> "none", fd |-> [n \in 0..2 |-> Console], root |-> "/"]

\* a path that is passed on as it is
KeepPath(path) == path

\* lines 216, 234, 241: *path ? path : "/null"
OrNull(path) == IF path = "" THEN "/null" ELSE path

\* open_to, lines 349-357, when its open and dup2 succeed
OpenTo(fd, root, new_fd, path, fallback_fd) ==
    IF path # ""
    THEN [fd EXCEPT ![new_fd] = Opened(path, root)]
    ELSE IF fallback_fd # 0 - 1 /\ fallback_fd # new_fd
         THEN [fd EXCEPT ![new_fd] = fd[fallback_fd]]
         ELSE fd

\* a child that confines itself before it opens anything
ChildHostifyFirst == <<"hostify", "in", "out", "exec", "running">>

\* lines 234-251: the child's steps
ChildOrder == <<"in", "out", "hostify", "exec", "running">>
\* lines 216-225: the auxiliary's steps
CatOrder == <<"in", "out", "err", "hostify", "exec", "running">>

\* the step after step pc in an order
After(order, at) ==
    order[1 + CHOOSE k \in 1..(Len(order) - 1) : order[k] = at]

StdioInit ==
    /\ io_run \in IoRuns
    /\ io_sup = "start"
    /\ io_cat = NoProc
    /\ io_child = NoProc

\* lines 207-213: the pipe and the fork of the auxiliary
ForkCat ==
    /\ io_sup = "start"
    /\ IF io_run.cat_output
       THEN \/ /\ io_cat' = [io_cat EXCEPT !.pc = CatOrder[1]]
               /\ io_sup' = "fork"
            \/ io_sup' = "off" /\ UNCHANGED io_cat
       ELSE io_sup' = "fork" /\ UNCHANGED io_cat
    /\ UNCHANGED <<io_run, io_child>>

\* lines 230-231: the fork of the main child
ForkIoChild ==
    /\ io_sup = "fork"
    /\ \/ /\ io_child' = [io_child EXCEPT !.pc = ChildOrder[1]]
          /\ io_sup' = "parent"
       \/ io_sup' = "off" /\ UNCHANGED io_child
    /\ UNCHANGED <<io_run, io_cat>>

\* a step of a forked process fails: fail, with in_init = 0, exits
IoFail(p) == [p EXCEPT !.pc = "exited"]

\* lines 214-227: the auxiliary's next step
CatStep ==
    /\ io_cat.pc \in {"in", "out", "err", "hostify", "exec"}
    /\ \/ io_cat' = IoFail(io_cat)
       \/ LET at == io_cat.pc
              fd == io_cat.fd
              fd2 == IF at = "in" THEN [fd EXCEPT ![0] = PipeRead]
                     ELSE IF at = "out"
                     THEN OpenTo(fd, io_cat.root, 1, OrNull(io_run.output),
                                 0 - 1)
                     ELSE IF at = "err"
                     THEN OpenTo(fd, io_cat.root, 2, io_run.error, 1)
                     ELSE fd
          IN io_cat' = [pc |-> After(CatOrder, at), fd |-> fd2,
                        root |-> IF at = "hostify" THEN "/host"
                                 ELSE io_cat.root]
    /\ UNCHANGED <<io_run, io_sup, io_child>>

\* lines 232-287: the main child's next step
ChildStep ==
    /\ io_child.pc \in {"in", "out", "hostify", "exec"}
    /\ \/ io_child' = IoFail(io_child)
       \/ LET at == io_child.pc
              fd == io_child.fd
              fd2 == IF at = "in"
                     THEN OpenTo(fd, io_child.root, 0, OrNull(io_run.input),
                                 0 - 1)
                     ELSE IF at = "out"
                     THEN IF io_run.cat_output
                          THEN [fd EXCEPT ![1] = PipeWrite, ![2] = PipeWrite]
                          ELSE OpenTo(OpenTo(fd, io_child.root, 1,
                                             OrNull(io_run.output), 0 - 1),
                                      io_child.root, 2, io_run.error, 1)
                     ELSE fd
          IN io_child' = [pc |-> After(ChildOrder, at), fd |-> fd2,
                          root |-> IF at = "hostify" THEN "/host"
                                   ELSE io_child.root]
    /\ UNCHANGED <<io_run, io_sup, io_cat>>


(* ----------------------- set_limits, call by call ----------------------- *)

limitVars == <<lim_pc, lim_limit, lim_calls>>

\* config.proto, lines 70-86: UNKNOWN, CPU and STACK; a ceiling of 0, one of
\* 5, and a negative value
Limits == [resource : {0, 3, 9}, soft : {0 - 1, 0, 5}, hard : {0 - 1, 0, 5}]

\* lines 418-426: resource_map
ResourceMap ==
    <<"RLIMIT_AS", "RLIMIT_CORE", "RLIMIT_CPU", "RLIMIT_DATA", "RLIMIT_FSIZE",
      "RLIMIT_MEMLOCK", "RLIMIT_NOFILE", "RLIMIT_NPROC", "RLIMIT_STACK">>

\* an rlim_t: RLIM_INFINITY or a number
RLIM_INFINITY == [inf |-> TRUE, val |-> 0]

\* a conversion that takes 0 for unbounded too
RlimPositive(v) == IF v > 0 THEN [inf |-> FALSE, val |-> v] ELSE RLIM_INFINITY

\* lines 434-435: v >= 0 ? v : RLIM_INFINITY
Rlim(v) == IF v >= 0 THEN [inf |-> FALSE, val |-> v] ELSE RLIM_INFINITY

\* setrlimit refuses a soft limit above the hard one (EINVAL)
RlimAbove(cur, max) == ~max.inf /\ (cur.inf \/ cur.val > max.val)

LimitsInit ==
    /\ lim_pc = "set_limits"
    /\ lim_limit \in SeqsUpTo(Limits, MaxRlimits)
    /\ lim_calls = <<>>

\* set_limits, lines 430-437: one round of the loop, or its end
SetRlimit ==
    /\ lim_pc = "set_limits"
    /\ IF Len(lim_calls) < Len(lim_limit)
       THEN LET l == lim_limit[Len(lim_calls) + 1]
            IN IF ~ResourceValid(l.resource)
               THEN lim_pc' = "exited" /\ UNCHANGED lim_calls
               ELSE \E ret \in {0, 0 - 1} :
                      /\ RlimAbove(Rlim(l.soft), Rlim(l.hard)) => ret = 0 - 1
                      /\ lim_calls' =
                            Append(lim_calls,
                                   [resource |-> ResourceMap[l.resource],
                                    cur |-> Rlim(l.soft),
                                    max |-> Rlim(l.hard), ret |-> ret])
                      /\ lim_pc' = IF ret = 0 - 1 THEN "exited"
                                   ELSE "set_limits"
       ELSE lim_pc' = "exec" /\ UNCHANGED lim_calls
    /\ UNCHANGED lim_limit

\* handle_run, lines 251-287: the exec that follows, or its failure
ExecLimited ==
    /\ lim_pc = "exec"
    /\ lim_pc' \in {"running", "exited"}
    /\ UNCHANGED <<lim_limit, lim_calls>>

(* ------------- the wait loop of the init with its own timer ------------ *)

timerVars == <<tv_pc, tv_run, timeout_phase, timeout_timer, tv_child_running,
               tv_cat_running, tv_procs>>

\* the Run of this init: no timeout or one, with or without cat_output
TimedRuns == [timeout : {0, 5}, cat_output : BOOLEAN]
NoTimedRun == [timeout |-> 0, cat_output |-> FALSE]
NoProcs == [p \in {"child", "cat"} |-> [st |-> "none", sigs |-> <<>>]]

\* lines 237-249: the forks done, the timer armed for run->timeout seconds
TimerInit ==
    /\ tv_run \in TimedRuns
    /\ tv_pc = "check"
    /\ timeout_phase = 0
    /\ timeout_timer = IF tv_run.timeout > 0 THEN "term" ELSE "none"
    /\ tv_child_running = TRUE
    /\ tv_cat_running = tv_run.cat_output
    /\ tv_procs = [p \in {"child", "cat"} |->
                     [st |-> IF p = "cat" /\ ~tv_run.cat_output
                             THEN "none" ELSE "running",
                      sigs |-> <<>>]]

\* kill(pid, sig) on the processes the supervisor takes to be running
KillRunning(ps, sig) ==
    [p \in {"child", "cat"} |->
        IF (p = "child" /\ tv_child_running) \/ (p = "cat" /\ tv_cat_running)
        THEN [ps[p] EXCEPT !.sigs = Append(@, sig)]
        ELSE ps[p]]

\* line 250, and lines 271-272 when the loop ends
TvCheck ==
    /\ tv_pc = "check"
    /\ IF tv_child_running \/ tv_cat_running
       THEN tv_pc' = "wait" /\ UNCHANGED timeout_timer
       ELSE /\ tv_pc' = "done"
            /\ timeout_timer' = IF tv_run.timeout > 0 THEN "idle"
                                ELSE timeout_timer
    /\ UNCHANGED <<tv_run, timeout_phase, tv_child_running, tv_cat_running,
                   tv_procs>>

\* lines 251, 265-269: wait(0) returns the pid of a child that has ended
TvWaitReturn ==
    /\ tv_pc = "wait"
    /\ \E waited \in {"child", "cat"} :
         /\ tv_procs[waited].st = "zombie"
         /\ tv_procs' = [tv_procs EXCEPT ![waited].st = "reaped"]
         /\ tv_child_running' = (tv_child_running /\ waited # "child")
         /\ tv_cat_running' = (tv_cat_running /\ waited # "cat")
    /\ tv_pc' = "check"
    /\ UNCHANGED <<tv_run, timeout_phase, timeout_timer>>

\* lines 252-264: wait(0) was interrupted
TvEintr ==
    /\ tv_pc = "eintr"
    /\ IF timeout_phase = 1
       THEN /\ tv_procs' = KillRunning(tv_procs, "TERM")
            /\ timeout_phase' = 2
            /\ \/ timeout_timer' = "kill" /\ tv_pc' = "check"
               \/ tv_pc' = "off" /\ UNCHANGED timeout_timer
       ELSE IF timeout_phase = 3
       THEN /\ tv_procs' = KillRunning(tv_procs, "KILL")
            /\ tv_pc' = "check"
            /\ UNCHANGED <<timeout_phase, timeout_timer>>
       ELSE /\ tv_pc' = "check"
            /\ UNCHANGED <<tv_procs, timeout_phase, timeout_timer>>
    /\ UNCHANGED <<tv_run, tv_child_running, tv_cat_running>>

\* the timer expires: SIGRTMIN is not blocked, handle_timeout (lines
\* 275-279) counts the phase up; a wait(0) in progress returns EINTR (the
\* handler is installed without SA_RESTART, lines 92-96), any other code of
\* the supervisor goes on where it was
TvExpire ==
    /\ timeout_timer \in {"term", "kill"}
    /\ tv_pc \in {"check", "wait", "eintr"}
    /\ timeout_timer' = "idle"
    /\ timeout_phase' = timeout_phase + 1
    /\ tv_pc' = IF tv_pc = "wait" THEN "eintr" ELSE tv_pc
    /\ UNCHANGED <<tv_run, tv_child_running, tv_cat_running, tv_procs>>

\* the child or the cat ends, of itself or by a signal it was sent
TvExit ==
    /\ tv_pc \in {"check", "wait", "eintr"}
    /\ \E p \in {"child", "cat"} :
         /\ tv_procs[p].st = "running"
         /\ tv_procs' = [tv_procs EXCEPT ![p].st = "zombie"]
    /\ UNCHANGED <<tv_pc, tv_run, timeout_phase, timeout_timer,
                   tv_child_running, tv_cat_running>>

(* --------------------------- specifications --------------------------- *)

vars ==
    <<guestVars, hostVars, readVars, imageVars, tripVars, asmVars, childVars,
      stdioVars, limitVars, timerVars>>

\* the parts a specification does not run stay as they are here
GuestIdle ==
    /\ ubda_magic = "deadbeef" /\ ubda = NoImage /\ pc = "off" /\ hdr = NoHdr
    /\ stored = 0 /\ cfg = EmptyCfg /\ i = 0 /\ log = <<>> /\ diag = ""
    /\ procs = <<>> /\ cat = -1 /\ child = -1 /\ child_running = FALSE
    /\ cat_running = FALSE /\ timed_out = FALSE /\ hard = FALSE
    /\ returned = <<>> /\ sigchld_pending = FALSE /\ ctrl = <<>> /\ sent = 0
    /\ pipes = {}
HostIdle ==
    /\ h_pc = "done" /\ h_timeout = 0 /\ h_now = 0 /\ h_deadline = 0
    /\ h_returncode = None /\ h_events = <<>> /\ uml = "none"
    /\ uml_status = 0 /\ uml_sigkill = FALSE
ReadIdle ==
    /\ rd_pc = "done" /\ rd_count = 0 /\ rd_avail = 0 /\ rd_split = FALSE
    /\ rd_res = [ret |-> 0, stored |-> 0]
ImageIdle ==
    /\ im_pc = "written" /\ im_payload = <<>> /\ im_cfg = <<>> /\ im_file = <<>>
TripIdle ==
    /\ t_pc = "off" /\ t_cfg = NoCfg /\ t_hdr = NoHdr /\ t_data = <<>>
    /\ t_out = NoCfg /\ t_diag = ""
\* the parts that only the later specifications run
AsmIdle ==
    /\ as_pc = "done" /\ as_args = NoArgs /\ as_mounts = NoMounts
    /\ as_cfg = NoAsmCfg
ChildIdle ==
    /\ c_pc = "none" /\ c_run = NoChildRun /\ c_in_init = TRUE
    /\ c_id = [uid |-> 0, gid |-> 0] /\ c_cred = [uid |-> 0, gid |-> 0]
    /\ c_environ = <<>> /\ c_path = NoPath /\ c_tries = <<>>
    /\ c_exec_errno = "0" /\ c_image = InitImage /\ c_log = <<>>
    /\ c_exit = 0 - 1 /\ c_off = FALSE /\ c_trace = <<>>
StdioIdle ==
    /\ io_run = [input |-> "", output |-> "", error |-> "", cat_output |-> FALSE]
    /\ io_sup = "none" /\ io_cat = NoProc /\ io_child = NoProc
TimerIdle ==
    /\ tv_pc = "none" /\ tv_run = NoTimedRun /\ timeout_phase = 0
    /\ timeout_timer = "none" /\ tv_child_running = FALSE
    /\ tv_cat_running = FALSE /\ tv_procs = NoProcs
LimitsIdle == lim_pc = "none" /\ lim_limit = <<>> /\ lim_calls = <<>>
restIdle == TripIdle /\ AsmIdle /\ ChildIdle /\ StdioIdle /\ LimitsIdle /\ TimerIdle
restVars == <<tripVars, asmVars, childVars, stdioVars, limitVars, timerVars>>

Init == GuestInit /\ HostIdle /\ ReadIdle /\ ImageIdle /\ restIdle

notGuest == <<hostVars, readVars, imageVars, restVars>>

Next ==
    \/ Bootstrap /\ UNCHANGED notGuest
    \/ ReadHeader /\ UNCHANGED notGuest
    \/ ReadConfig /\ UNCHANGED notGuest
    \/ Decode /\ UNCHANGED notGuest
    \/ Random /\ UNCHANGED notGuest
    \/ TtyRaw /\ UNCHANGED notGuest
    \/ Mount /\ UNCHANGED notGuest
    \/ StartRun /\ UNCHANGED notGuest
    \/ ForkChild /\ UNCHANGED notGuest
    \/ DaemonReturn /\ UNCHANGED notGuest
    \/ ClosePipe /\ UNCHANGED notGuest
    \/ Waitpid /\ UNCHANGED notGuest
    \/ PpollEintr /\ UNCHANGED notGuest
    \/ PpollReady /\ UNCHANGED notGuest
    \/ Return /\ UNCHANGED notGuest
    \/ Shutdown /\ UNCHANGED notGuest
    \/ ProcExit /\ UNCHANGED notGuest
    \/ HostToken /\ UNCHANGED notGuest

Spec == Init /\ [][Next]_vars

notHost == <<guestVars, readVars, imageVars, restVars>>

InitHost == HostInit /\ GuestIdle /\ ReadIdle /\ ImageIdle /\ restIdle

HostStep ==
    \/ Popen /\ UNCHANGED notHost
    \/ WaitReturns /\ UNCHANGED notHost
    \/ SoftTimeout /\ UNCHANGED notHost
    \/ HardTimeout /\ UNCHANGED notHost
    \/ Killpg /\ UNCHANGED notHost
    \/ Close /\ UNCHANGED notHost

HostEnv ==
    \/ UmlExit /\ UNCHANGED notHost
    \/ UmlKilled /\ UNCHANGED notHost
    \/ Tick /\ UNCHANGED notHost

NextHost == HostStep \/ HostEnv

\* the host runs, time passes, and SIGKILL ends the guest
SpecHost ==
    /\ InitHost
    /\ [][NextHost]_vars
    /\ WF_vars(HostStep)
    /\ WF_vars(Tick /\ UNCHANGED notHost)
    /\ WF_vars(UmlKilled /\ UNCHANGED notHost)

InitRead == ReadInit /\ GuestIdle /\ HostIdle /\ ImageIdle /\ restIdle

NextRead == ReadallCall /\ UNCHANGED <<guestVars, hostVars, imageVars, restVars>>

SpecRead == InitRead /\ [][NextRead]_vars

notImage == <<guestVars, hostVars, readVars, restVars>>

InitImg == ImageInit /\ GuestIdle /\ HostIdle /\ ReadIdle /\ restIdle

NextImg ==
    \/ Serialize /\ UNCHANGED notImage
    \/ Pack /\ UNCHANGED notImage
    \/ Pad /\ UNCHANGED notImage
    \/ WriteImage /\ UNCHANGED notImage

SpecImg == InitImg /\ [][NextImg]_vars

notTripImage ==
    <<guestVars, hostVars, readVars, tripVars, asmVars, childVars, stdioVars,
      limitVars, timerVars>>
notTripGuest ==
    <<guestVars, hostVars, readVars, imageVars, asmVars, childVars, stdioVars,
      limitVars, timerVars>>

InitTrip ==
    /\ TripInit /\ GuestIdle /\ HostIdle /\ ReadIdle /\ AsmIdle /\ ChildIdle
    /\ StdioIdle /\ LimitsIdle /\ TimerIdle

NextTrip ==
    \/ Serialize /\ UNCHANGED notTripImage
    \/ Pack /\ UNCHANGED notTripImage
    \/ Pad /\ UNCHANGED notTripImage
    \/ WriteImage /\ UNCHANGED notTripImage
    \/ TripReadHeader /\ UNCHANGED notTripGuest
    \/ TripReadConfig /\ UNCHANGED notTripGuest
    \/ TripUnpack /\ UNCHANGED notTripGuest

SpecTrip == InitTrip /\ [][NextTrip]_vars

notAsm ==
    <<guestVars, hostVars, readVars, imageVars, tripVars, childVars, stdioVars,
      limitVars, timerVars>>

InitAsm ==
    /\ AsmInit /\ GuestIdle /\ HostIdle /\ ReadIdle /\ ImageIdle /\ TripIdle
    /\ ChildIdle /\ StdioIdle /\ LimitsIdle /\ TimerIdle

NextAsm ==
    \/ DefaultMounts /\ UNCHANGED notAsm
    \/ BaseMounts /\ UNCHANGED notAsm
    \/ HostMounts /\ UNCHANGED notAsm
    \/ Translates /\ UNCHANGED notAsm
    \/ SortMounts /\ UNCHANGED notAsm
    \/ AddRuns /\ UNCHANGED notAsm

SpecAsm == InitAsm /\ [][NextAsm]_vars

notChild ==
    <<guestVars, hostVars, readVars, imageVars, tripVars, asmVars, stdioVars,
      limitVars, timerVars>>

InitChild ==
    /\ ChildInit /\ GuestIdle /\ HostIdle /\ ReadIdle /\ ImageIdle /\ TripIdle
    /\ AsmIdle /\ StdioIdle /\ LimitsIdle /\ TimerIdle

NextChild ==
    \/ MainEnv /\ UNCHANGED notChild
    \/ Identity /\ UNCHANGED notChild
    \/ ForkMain /\ UNCHANGED notChild
    \/ Redirect /\ UNCHANGED notChild
    \/ SetEnv /\ UNCHANGED notChild
    \/ Hostify /\ UNCHANGED notChild
    \/ SetLimits /\ UNCHANGED notChild
    \/ Resolve /\ UNCHANGED notChild
    \/ Try /\ UNCHANGED notChild
    \/ Report /\ UNCHANGED notChild

SpecChild == InitChild /\ [][NextChild]_vars

InitRuns == RunsInit /\ HostIdle /\ ReadIdle /\ ImageIdle /\ restIdle

NextRuns ==
    \/ StartRun /\ UNCHANGED notGuest
    \/ ForkChild /\ UNCHANGED notGuest
    \/ DaemonReturn /\ UNCHANGED notGuest
    \/ ClosePipe /\ UNCHANGED notGuest
    \/ Waitpid /\ UNCHANGED notGuest
    \/ PpollEintr /\ UNCHANGED notGuest
    \/ PpollReady /\ UNCHANGED notGuest
    \/ Return /\ UNCHANGED notGuest
    \/ Shutdown /\ UNCHANGED notGuest
    \/ ExitStatus /\ UNCHANGED notGuest
    \/ HostToken /\ UNCHANGED notGuest

SpecRuns == InitRuns /\ [][NextRuns]_vars

NextEarly ==
    \/ StartRun /\ UNCHANGED notGuest
    \/ ForkChild /\ UNCHANGED notGuest
    \/ DaemonReturn /\ UNCHANGED notGuest
    \/ ClosePipe /\ UNCHANGED notGuest
    \/ Waitpid /\ UNCHANGED notGuest
    \/ PpollEintr /\ UNCHANGED notGuest
    \/ PpollReady /\ UNCHANGED notGuest
    \/ Return /\ UNCHANGED notGuest
    \/ Shutdown /\ UNCHANGED notGuest
    \/ ExitStatus /\ UNCHANGED notGuest
    \/ EarlyToken /\ UNCHANGED notGuest

\* tokens that reach the pipe before the first Run, between Runs, or
\* between the forks and the wait loop of a Run
SpecEarly == InitRuns /\ [][NextEarly]_vars

\* the supervisor is a process the guest kernel keeps scheduling: a call of
\* the wait loop that can return does return
SpecWait ==
    /\ InitRuns
    /\ [][NextRuns]_vars
    /\ WF_vars(Waitpid /\ UNCHANGED notGuest)
    /\ WF_vars(PpollEintr /\ UNCHANGED notGuest)

notStdio ==
    <<guestVars, hostVars, readVars, imageVars, tripVars, asmVars, childVars,
      limitVars, timerVars>>

InitStdio ==
    /\ StdioInit /\ GuestIdle /\ HostIdle /\ ReadIdle /\ ImageIdle /\ TripIdle
    /\ AsmIdle /\ ChildIdle /\ LimitsIdle /\ TimerIdle

NextStdio ==
    \/ ForkCat /\ UNCHANGED notStdio
    \/ ForkIoChild /\ UNCHANGED notStdio
    \/ CatStep /\ UNCHANGED notStdio
    \/ ChildStep /\ UNCHANGED notStdio

SpecStdio == InitStdio /\ [][NextStdio]_vars

notLimits ==
    <<guestVars, hostVars, readVars, imageVars, tripVars, asmVars, childVars,
      stdioVars, timerVars>>

InitLimits ==
    /\ LimitsInit /\ GuestIdle /\ HostIdle /\ ReadIdle /\ ImageIdle /\ TripIdle
    /\ AsmIdle /\ ChildIdle /\ StdioIdle /\ TimerIdle

NextLimits ==
    \/ SetRlimit /\ UNCHANGED notLimits
    \/ ExecLimited /\ UNCHANGED notLimits

SpecLimits == InitLimits /\ [][NextLimits]_vars

notTimer ==
    <<guestVars, hostVars, readVars, imageVars, tripVars, asmVars, childVars,
      stdioVars, limitVars>>

InitTimer ==
    /\ TimerInit /\ GuestIdle /\ HostIdle /\ ReadIdle /\ ImageIdle /\ TripIdle
    /\ AsmIdle /\ ChildIdle /\ StdioIdle /\ LimitsIdle

NextTimer ==
    \/ TvCheck /\ UNCHANGED notTimer
    \/ TvWaitReturn /\ UNCHANGED notTimer
    \/ TvEintr /\ UNCHANGED notTimer
    \/ TvExpire /\ UNCHANGED notTimer
    \/ TvExit /\ UNCHANGED notTimer

\* the supervisor is scheduled, and an armed timer expires
SpecTimer ==
    /\ InitTimer
    /\ [][NextTimer]_vars
    /\ WF_vars(TvCheck /\ UNCHANGED notTimer)
    /\ WF_vars(TvWaitReturn /\ UNCHANGED notTimer)
    /\ WF_vars(TvEintr /\ UNCHANGED notTimer)
    /\ WF_vars(TvExpire /\ UNCHANGED notTimer)

(* ------------------------------- claims ------------------------------- *)

Escalation == <<"N", "Y", "KILL">>

\* C1: the host's escalation events occur only in the order soft token, hard
\* token, SIGKILL, each at most once; the soft token not before the timeout
\* has passed, each later one not before 5 more seconds have passed; none
\* once the host has seen the guest exit; none without a positive timeout.
C1_EscalationOrder ==
    /\ Len(h_events) <= 3
    /\ \A k \in DOMAIN h_events :
         /\ h_events[k].ev = Escalation[k]
         /\ ~h_events[k].seen
         /\ h_events[k].at >= (IF k = 1 THEN h_timeout ELSE h_events[k - 1].at + 5)
    /\ h_timeout <= 0 => h_events = <<>>
    /\ uml_sigkill <=> Len(h_events) = 3

C1_Witness ==
    /\ Len(h_events) = 3
    /\ h_events[3].ev = "KILL"
    /\ h_events[3].at = h_timeout + 10

\* C2: with a positive timeout the host's supervision ends: the guest does
\* not run for ever, and the host gets to the end of main with the exit
\* status of the guest in hand.
C2_SupervisionTerminates ==
    /\ (h_timeout > 0 /\ uml = "running") ~> (uml = "dead")
    /\ (h_timeout > 0) ~> (h_pc = "done" /\ h_returncode.set)

C2_Witness ==
    /\ h_pc = "done"
    /\ h_timeout > 0
    /\ uml_sigkill
    /\ h_returncode = [set |-> TRUE, val |-> Killed]

IsPrefix(a, b) == Len(a) <= Len(b) /\ a = SubSeq(b, 1, Len(a))

\* what main does after a successful decode, by lines 131-144
Plan(c) ==
    <<Ev("decode", 0)>>
    \o (IF c.random THEN <<Ev("random", 0)>> ELSE <<>>)
    \o [k \in 1..c.n_tty_raw |-> Ev("tty", k)]
    \o [k \in 1..c.n_mount |-> Ev("mount", k)]
    \o [k \in 1..Len(c.run) |-> Ev("run", k)]

Steps == SelectSeq(log, LAMBDA e : e.op \notin {"sync", "off"})
Ending == SelectSeq(log, LAMBDA e : e.op \in {"sync", "off"})
Decoded == log # <<>> /\ log[1].op = "decode"

\* C3: after a successful decode the supervisor's actions are, in this
\* order, the entropy injection (only with a non-empty blob), the tty
\* switches in list order, the Mounts in list order, the Runs in list order,
\* then sync and power-off: what it has done is always a beginning of that
\* plan, sync and power-off come only at the very end, and a shutdown that
\* was not forced by a failure or a timeout comes after the whole plan.
C3_FixedOrder ==
    Decoded =>
        /\ IsPrefix(Steps, Plan(cfg))
        /\ log = Steps \o Ending
        /\ Ending \in {<<>>, <<Ev("off", 0)>>, <<Ev("sync", 0), Ev("off", 0)>>}
        /\ (Len(Ending) = 2 /\ \A k \in DOMAIN returned : ~returned[k])
               => Steps = Plan(cfg)

C3_Witness ==
    /\ pc = "off"
    /\ cfg.random /\ cfg.n_tty_raw >= 1 /\ cfg.n_mount >= 2 /\ Len(cfg.run) >= 2
    /\ log = Plan(cfg) \o <<Ev("sync", 0), Ev("off", 0)>>

Foreground(k) == k \in DOMAIN cfg.run /\ ~cfg.run[k].daemon
Reaped(p) == p \in DOMAIN procs /\ procs[p].st = "reaped"

\* C4: foreground Runs are sequential: handle_run leaves its wait only with
\* the main child and the cat auxiliary (if any) both reaped, or with a hard
\* timeout byte read; no process of a later Run exists while a process of
\* an earlier foreground Run is unreaped.
C4_ForegroundSequential ==
    /\ pc = "ret" => \/ hard
                     \/ Reaped(child) /\ (run.cat_output => Reaped(cat))
    /\ \A p, q \in DOMAIN procs :
         (procs[p].run < procs[q].run /\ Foreground(procs[p].run))
            => procs[p].st = "reaped"

C4_Witness ==
    /\ Len(procs) >= 3
    /\ Foreground(1) /\ cfg.run[1].cat_output
    /\ procs[3].run = 2
    /\ procs[3].st = "running"

\* a control byte is read in this step
ReadsByte(b) ==
    /\ pc = "ppoll" /\ ctrl # <<>> /\ Head(ctrl) = b /\ ctrl' = Tail(ctrl)

\* C5: a daemon Run never blocks the supervisor: it is never in the wait
\* loop for a daemon, handle_run returns false for it as its next step after
\* the fork, without reaping anything, and reaping a process that the
\* current foreground Run does not await leaves the wait as it was.
C5_DaemonInv ==
    /\ pc \in {"close", "waitpid", "ppoll", "ret"} => ~run.daemon
    /\ \A k \in DOMAIN returned : cfg.run[k].daemon => ~returned[k]
    /\ pc = "waitpid" => child_running \/ cat_running

C5_DaemonStep ==
    /\ (pc = "daemon" /\ pc' # pc)
          => /\ returned' = Append(returned, FALSE)
             /\ procs' = procs
             /\ pc' = "run"
    /\ (pc = "waitpid" /\ procs' # procs
           /\ \E p \in DOMAIN procs \ {child, cat} : procs'[p] # procs[p])
          => /\ pc' = "waitpid"
             /\ child_running' = child_running
             /\ cat_running' = cat_running

C5_DaemonNeverBlocks == []C5_DaemonInv /\ [][C5_DaemonStep]_vars

\* a daemon is still running when the supervisor, after a later foreground
\* Run, has synced and powered off
C5_Witness ==
    /\ pc = "off"
    /\ Len(cfg.run) = 2 /\ cfg.run[1].daemon /\ ~cfg.run[2].daemon
    /\ returned = <<FALSE, FALSE>>
    /\ procs[1].st = "running" /\ procs[1].run = 1
    /\ Ending = <<Ev("sync", 0), Ev("off", 0)>>

\* C6: reading the hard-timeout byte ends the wait at once, with the
\* children as they are; handle_run returns true; no later Run is started;
\* the supervisor syncs and powers off.
C6_HardInv ==
    hard =>
        /\ pc \in {"ret", "sync", "off"}
        /\ timed_out
        /\ pc # "ret" => (Len(returned) = i + 1 /\ returned[i + 1])
        /\ \A p \in DOMAIN procs : procs[p].run <= i + 1
        /\ pc = "off" => (diag = "" /\ Ending = <<Ev("sync", 0), Ev("off", 0)>>)

C6_HardStep ==
    /\ ReadsByte("Y") => (hard' /\ timed_out' /\ pc' = "ret" /\ procs' = procs)
    /\ hard => (hard' /\ i' = i /\ Len(procs') = Len(procs))

C6_HardTimeoutAbandons == []C6_HardInv /\ [][C6_HardStep]_vars

C6_Witness ==
    /\ hard /\ pc = "off"
    /\ i + 1 < Len(cfg.run)
    /\ procs[child].st = "running"

\* C7: on a soft-timeout byte SIGTERM goes to the Run's main child if and
\* only if the supervisor has not reaped it, and the wait loop goes on;
\* SIGTERM never goes to a cat auxiliary, to a daemon or to a reaped pid.
C7_TermInv ==
    /\ diag # "kill"
    /\ \A p \in DOMAIN procs :
         procs[p].term > 0 => (procs[p].kind = "child" /\ Foreground(procs[p].run))

C7_TermStep ==
    ReadsByte("N") =>
        /\ pc' = "waitpid"
        /\ IF procs[child].st # "reaped"
           THEN procs' = [procs EXCEPT ![child].term = @ + 1]
           ELSE procs' = procs

C7_SoftTimeoutTerm == []C7_TermInv /\ [][C7_TermStep]_vars

C7_Witness ==
    /\ cat # -1 /\ child # -1
    /\ procs[child].term = 1
    /\ procs[cat].term = 0 /\ procs[cat].st = "running"
    /\ \E p \in DOMAIN procs : procs[p].run < i + 1 /\ procs[p].st = "running"

\* C8: when the first word of the image is not the magic, whatever the
\* declared length and the payload, the guest prints a diagnostic and
\* powers off: it decodes nothing, applies no Mount and starts no Run.
C8_BadMagicRejected ==
    ubda_magic # "deadbeef" =>
        /\ pc \in {"boot", "open", "off"}
        /\ ~Decoded /\ Steps = <<>> /\ procs = <<>> /\ cfg = EmptyCfg
        /\ pc = "off" => (diag # "" /\ log = <<Ev("off", 0)>>)
        /\ hdr # NoHdr => (pc = "off" /\ diag = "bad /ubda header")

C8_Witness ==
    /\ ubda_magic = "other" /\ pc = "off" /\ diag = "bad /ubda header"
    /\ ubda.wellformed /\ ubda.len > 0 /\ Len(ubda.payload.run) = 2
    /\ ubda.payload.n_mount > 0

C9_GuestDecodesFullBuffer == pc = "decode" => stored = hdr.len

Word(b) == b[1] + 256 * b[2] + 65536 * b[3] + 16777216 * b[4]

\* C10: the image written for a payload of L bytes is the magic 0xdeadbeef,
\* the 32-bit value L, the L payload bytes, then P zero bytes, P the least
\* number >= 0 that makes 8 + L + P a multiple of 512; the whole is a
\* positive multiple of 512 bytes long.
C10_ImageLayout ==
    im_pc = "written" =>
        LET L == Len(im_payload)
            P == Len(im_file) - 8 - L
        IN /\ Len(im_file) > 0 /\ Len(im_file) % 512 = 0
           /\ P \in 0..511
           /\ (8 + L) % 512 = 0 => P = 0
           /\ SubSeq(im_file, 1, 4) = <<239, 190, 173, 222>>
           /\ Word(SubSeq(im_file, 5, 8)) = L
           /\ SubSeq(im_file, 9, 8 + L) = im_payload
           /\ \A j \in (8 + L + 1)..Len(im_file) : im_file[j] = 0

\* a payload that fills two blocks exactly
C10_Witness ==
    /\ im_pc = "written"
    /\ Len(im_payload) = 1016
    /\ Len(im_file) = 1024

\* C11: a Config that the host serializes, packs, pads and writes comes out
\* of the guest's header read, payload read and decode as the same Config,
\* with the same entries in the same order; what the guest reads into data
\* is the serialized payload and none of the padding, and the guest never
\* finds the header or the payload bad.
C11_RoundTrip ==
    /\ t_pc \in {"unpack", "decoded"} =>
          (t_hdr.len = Len(im_payload) /\ t_data = im_payload)
    /\ t_pc = "decoded" => t_out = t_cfg
    /\ t_diag \notin {"bad /ubda header", "bad config"}

C11_Witness ==
    /\ t_pc = "decoded"
    /\ Len(t_cfg.tty_raw) = 2 /\ t_cfg.tty_raw[1] # t_cfg.tty_raw[2]
    /\ Len(t_cfg.mount) = 2 /\ t_cfg.mount[1] # t_cfg.mount[2]
    /\ Len(t_cfg.run) = 2 /\ t_cfg.run[1] # t_cfg.run[2]
    /\ t_cfg.random = <<7, 0>>
    /\ Len(im_file) > HdrSize + Len(im_payload)

Targets == [k \in DOMAIN as_cfg.mount |-> as_cfg.mount[k].target]

\* a is a directory above b: b is a, a slash (unless a ends with one) and more
ProperPathPrefix(a, b) ==
    /\ Len(a) < Len(b)
    /\ a = SubSeq(b, 1, Len(a))
    /\ a[Len(a)] = 47 \/ b[Len(a) + 1] = 47

\* C12: the Mounts of the assembled Config are in ascending order of
\* (length of the target, target), no target comes twice, and so a target
\* that is a proper path prefix of another one comes before it.
C12_MountOrder ==
    as_pc \in {"run", "done"} =>
        /\ \A j, k \in DOMAIN Targets :
             j < k =>
               \/ Len(Targets[j]) < Len(Targets[k])
               \/ /\ Len(Targets[j]) = Len(Targets[k])
                  /\ \E n \in DOMAIN Targets[j] :
                       /\ Targets[j][n] < Targets[k][n]
                       /\ SubSeq(Targets[j], 1, n - 1) = SubSeq(Targets[k], 1, n - 1)
        /\ \A j, k \in DOMAIN Targets :
             ProperPathPrefix(Targets[j], Targets[k]) => j < k
        /\ {Targets[k] : k \in DOMAIN Targets} = DOMAIN as_mounts
        /\ \A k \in DOMAIN Targets : as_cfg.mount[k] = as_mounts[Targets[k]]

\* the mounts "/a/b" and "/a" asked for in this order
C12_Witness ==
    /\ as_pc = "done"
    /\ as_args.mount = <<PAB, PASlash>>
    /\ Targets = <<PA, PAB, PSys, PTmp, PProc>>

HasMount(target, fstype) ==
    \E k \in DOMAIN as_cfg.mount :
        /\ as_cfg.mount[k].target = target
        /\ as_cfg.mount[k].fstype = fstype

\* C13: whatever the mount options, the assembled Config has the tmpfs
\* mount at /tmp, the proc mount at /proc and the sysfs mount at /sys.
C13_PseudoMountsAlways ==
    as_pc = "done" =>
        /\ HasMount(PTmp, "tmpfs")
        /\ HasMount(PProc, "proc")
        /\ HasMount(PSys, "sysfs")

\* C14: the Runs of the assembled Config are the loopback address
\* assignment, the loopback link-up, the relay as a daemon if and only if
\* relaying was asked for, and the user's command, foreground, as the last.
C14_RunSequence ==
    as_pc = "done" =>
        LET r == as_cfg.run
            n == Len(r)
        IN /\ n = IF as_args.relay THEN 4 ELSE 3
           /\ r[1].cmd = "/sbin/ip" /\ r[1].arg = "addr add" /\ ~r[1].daemon
           /\ r[2].cmd = "/sbin/ip" /\ r[2].arg = "link set" /\ ~r[2].daemon
           /\ as_args.relay => (r[3].cmd = "mudem" /\ r[3].daemon)
           /\ r[n].cmd = "cmd" /\ ~r[n].daemon
           /\ \A k \in 1..(n - 1) : r[k].cmd # "cmd"

C14_Witness ==
    /\ as_pc = "done"
    /\ as_args.relay
    /\ Len(as_cfg.run) = 4
    /\ as_cfg.run[3].daemon

\* the Run's env entries that name a variable
Named(env) ==
    {j \in DOMAIN env :
       env[j].key # <<>> /\ \A k \in DOMAIN env[j].key : env[j].key[k] # "="}

\* BaseEnv overlaid with the entries in list order, the last of a name winning
Overlaid(env) ==
    [name \in DOMAIN BaseEnv \cup {env[j].key : j \in Named(env)} |->
       IF \E j \in Named(env) : env[j].key = name
       THEN env[CHOOSE j \in Named(env) :
                  /\ env[j].key = name
                  /\ \A l \in Named(env) : env[l].key = name => l <= j].value
       ELSE BaseEnv[name]]

AfterSetEnv == {"hostify", "limits", "resolve", "try", "report", "running"}

\* C15: once a Run's main child has set the Run's variables, and so when it
\* execs, its environment is exactly PATH, TERM and HOME as the supervisor set
\* them, overlaid with the Run's env entries in list order, a later entry of
\* a name replacing an earlier one; no variable that the kernel handed to init
\* is in it, and HOME is not the kernel's.
C15_ChildEnvironment ==
    c_pc \in AfterSetEnv =>
        /\ c_environ = Overlaid(c_run.env)
        /\ (DOMAIN BootEnv \ DOMAIN BaseEnv) \cap DOMAIN c_environ = {}
        /\ (\A j \in DOMAIN c_run.env : c_run.env[j].key # HOME)
               => c_environ[HOME] = BaseEnv[HOME]

\* the child execs after two entries of one name, and has the later value
C15_Witness ==
    /\ c_pc = "running"
    /\ Len(c_run.env) = 2
    /\ c_run.env[1].key = <<"X">> /\ c_run.env[2].key = <<"X">>
    /\ c_run.env[1].value # c_run.env[2].value
    /\ c_environ[<<"X">>] = c_run.env[2].value

\* the entries of a search path: what lies between its colons, before the
\* first and after the last
RECURSIVE PathEntries(_)
PathEntries(s) ==
    IF \E k \in DOMAIN s : s[k] = ":"
    THEN LET k == CHOOSE c \in DOMAIN s :
                      s[c] = ":" /\ \A j \in 1..(c - 1) : s[j] # ":"
         IN <<SubSeq(s, 1, k - 1)>> \o PathEntries(SubSeq(s, k + 1, Len(s)))
    ELSE <<s>>

\* the entries but for an empty one after a last colon
SearchedEntries(s) ==
    LET e == PathEntries(s)
    IN IF Len(e) > 1 /\ e[Len(e)] = <<>> THEN SubSeq(e, 1, Len(e) - 1) ELSE e

\* the files to try for the Run's command, given the entries of PATH
Candidates(entries) ==
    IF \E k \in DOMAIN c_run.cmd : c_run.cmd[k] = "/"
    THEN <<c_run.cmd>>
    ELSE [k \in DOMAIN entries |-> entries[k] \o <<"/">> \o c_run.cmd]

\* the execs made so far are the resolution sequence over these entries
ExecSequence(entries) ==
    LET cand == Candidates(entries)
        n == Len(c_tries)
        enoexec == {k \in 1..n : c_tries[k].err = "ENOEXEC"}
        j == IF enoexec = {} THEN 0
             ELSE CHOOSE k \in enoexec : \A l \in enoexec : k <= l
        direct == IF j = 0 THEN c_tries ELSE SubSeq(c_tries, 1, j)
    IN /\ Len(direct) <= Len(cand)
       /\ \A k \in DOMAIN direct :
            /\ direct[k].file = cand[k]
            /\ direct[k].argv = <<c_run.cmd>> \o c_run.arg
       /\ \A k \in 1..(n - 1) : c_tries[k].err # "0"
       /\ j # 0 =>
            /\ n = j + 1
            /\ c_tries[n].file = DEFAULT_SHELL
            /\ c_tries[n].argv = <<DEFAULT_SHELL, c_tries[j].file>> \o c_run.arg
       /\ c_pc = "running" =>
            /\ c_tries[n].err = "0"
            /\ c_image = [file |-> c_tries[n].file, argv |-> c_tries[n].argv]
       /\ c_pc = "try" => n < Len(cand)
       /\ (c_pc = "report" \/ (c_pc = "exited" /\ n > 0)) =>
            /\ c_tries[n].err # "0"
            /\ j = 0 => n = Len(cand)
            /\ c_image = InitImage
       /\ (c_pc = "exited" /\ n > 0) =>
            c_exit # 0 /\ c_log = <<"?">> /\ ~c_off

Resolving == {"try", "report", "running", "exited"}

\* C16: a command with a '/' is tried once, as it is; one without is tried
\* once per entry of PATH, from left to right, going on past every error but
\* ENOEXEC; at the first ENOEXEC the default shell is exec'd once, with the
\* resolved file and then the Run's arguments, and no later entry is tried;
\* when no exec succeeds the child reports it and exits with a non-zero status.
C16_ExecResolution ==
    c_pc \in Resolving /\ PATH \in DOMAIN c_environ
        => ExecSequence(PathEntries(c_environ[PATH]))

\* the same, over the entries but for an empty one after a last colon
C16_ExecOverSearched ==
    c_pc \in Resolving /\ PATH \in DOMAIN c_environ
        => ExecSequence(SearchedEntries(c_environ[PATH]))

\* the search is over, no exec was refused as not executable, and an entry of
\* PATH was never tried
C16_EntryNotTried ==
    /\ c_pc = "exited"
    /\ c_tries # <<>>
    /\ \A k \in DOMAIN c_tries : c_tries[k].err \notin {"0", "ENOEXEC"}
    /\ Len(c_tries) < Len(Candidates(PathEntries(c_environ[PATH])))

IdentityDone ==
    {"fork", "stdio", "env", "hostify", "limits", "resolve", "try", "report",
     "running"}
Confined == {"limits", "resolve", "try", "report", "running"}

\* C17: for a Run with user set, handle_run's uid is the Run's uid when that
\* is not 0 and else a value in 5000..999999, whatever random() returned, and
\* the same for the gid; past hostify, and so when it execs, the child's
\* credentials are those two, neither of them 0.
C17_DerivedIdentity ==
    c_run.user =>
        /\ c_pc \in IdentityDone =>
             /\ c_run.uid # 0 => c_id.uid = c_run.uid
             /\ c_run.gid # 0 => c_id.gid = c_run.gid
             /\ c_run.uid = 0 => c_id.uid \in 5000..999999
             /\ c_run.gid = 0 => c_id.gid \in 5000..999999
        /\ c_pc \in Confined =>
             c_cred = c_id /\ c_cred.uid # 0 /\ c_cred.gid # 0

\* a child execs with the largest derived uid and the gid the Run gave
C17_Witness ==
    /\ c_pc = "running"
    /\ c_run.user /\ c_run.uid = 0 /\ c_run.gid = 7
    /\ c_cred = [uid |-> 999999, gid |-> 7]

\* C18: when a Limit of the Run has a resource that is none of the nine
\* mapped kinds (0, a negative value, a value above STACK), the child never
\* gets as far as resolving its command: it makes no exec and the Run's
\* program is never the process's image.
C18_UnmappedLimit ==
    (\E k \in DOMAIN c_run.limit : c_run.limit[k] \notin 1..9) =>
        /\ c_tries = <<>>
        /\ c_image = InitImage
        /\ c_pc \notin {"resolve", "try", "report", "running"}

\* the child has met a Limit of kind UNKNOWN, reported it and exited,
\* and the guest is not powered off
C18_Witness ==
    /\ c_pc = "exited"
    /\ c_run.limit = <<0>>
    /\ c_log = <<"set_limits">>
    /\ c_exit = 1
    /\ ~c_off
    /\ c_tries = <<>>

\* C19: when the host has finished, its own exit status is the exit status
\* of the guest kernel process, whether the guest ended by itself, after a
\* soft or hard token, or by the SIGKILL to its process group.
C19_ExitStatusMirrored ==
    h_pc = "done" => HostExitStatus = uml_status

\* the host has ended after the guest was killed, or exited with a status
\* that is not 0
C19_StatusLost ==
    /\ h_pc = "done"
    /\ h_returncode.set
    /\ h_returncode.val # 0
    /\ HostExitStatus = 0

\* no token was written and the supervisor itself did not fail
Undisturbed == sent = 0 /\ diag = ""

\* C20, states: while no control byte was written no handle_run has timed
\* out or returned true; and when the guest is off without a failure of the
\* supervisor and without a control byte, every Run of the Config was
\* started, in order, and every handle_run returned false.
C20_ExitInv ==
    /\ sent = 0 => ~timed_out /\ \A k \in DOMAIN returned : ~returned[k]
    /\ (pc = "off" /\ Undisturbed) =>
         /\ Len(returned) = Len(cfg.run)
         /\ \A k \in DOMAIN cfg.run :
              \E a \in DOMAIN log :
                /\ log[a] = Ev("run", k)
                /\ k > 1 => \E b \in 1..(a - 1) : log[b] = Ev("run", k - 1)

\* C20, steps: a process that ends with a status other than 0, an exec that
\* failed included, changes that process alone: the guest is not powered
\* off, the supervisor stays where it is and no other process changes; and
\* reaping it leaves the supervisor in its wait loop or at its return, with
\* timed_out as it was and no diagnostic.
C20_ExitStep ==
    \A p \in DOMAIN procs :
        /\ (procs[p].st = "running" /\ procs'[p].st = "zombie"
                /\ procs'[p].status # 0) =>
             /\ pc' = pc /\ log' = log /\ diag' = diag /\ i' = i
             /\ timed_out' = timed_out /\ returned' = returned
             /\ \A q \in DOMAIN procs : q # p => procs'[q] = procs[q]
        /\ (procs[p].st = "zombie" /\ procs[p].status # 0
                /\ procs'[p].st = "reaped") =>
             /\ pc' \in {"waitpid", "ret"}
             /\ log' = log /\ diag' = diag /\ i' = i
             /\ timed_out' = timed_out /\ returned' = returned

\* C20: a Run whose child cannot exec its program, or whose child exits with
\* a status other than 0, affects that child alone: the child does not
\* power the guest off, handle_run returns false unless a control byte made
\* it time out, and the Runs after it are still started.
C20_ChildFailureConfined == []C20_ExitInv /\ [][C20_ExitStep]_vars

\* the foreground child of the first of two Runs has exited with status 1,
\* the supervisor is in its wait loop and no control byte was written
C20_Witness ==
    /\ Len(cfg.run) = 2 /\ i = 0
    /\ ~cfg.run[1].daemon
    /\ pc = "waitpid"
    /\ child \in DOMAIN procs
    /\ procs[child].kind = "child"
    /\ procs[child].st = "zombie" /\ procs[child].status = 1
    /\ Undisturbed

\* the child side: a child that has exited did so with status 1 after
\* printing what failed, and only the supervisor powers the guest off
C20_ChildExits ==
    /\ c_pc = "exited" => c_exit = 1 /\ c_log # <<>> /\ ~c_off /\ ~c_in_init
    /\ c_off => c_in_init /\ c_pc = "off"

\* C21: a fork that fails while a Run's cat auxiliary or main child is
\* spawned is logged and aborts nothing: when the guest is off after it,
\* every Run of the Config has been started.
C21_ForkFailureConfined ==
    (pc = "off" /\ diag = "fork") => Steps = Plan(cfg)

\* a fork failed in the first of two Runs and the guest is off with the
\* second Run never started
C21_RunsAborted ==
    /\ pc = "off" /\ diag = "fork"
    /\ Len(cfg.run) = 2 /\ i = 0
    /\ \A a \in DOMAIN log : log[a] # Ev("run", 2)

\* the supervisor's failures before a Config is decoded, and in each of the
\* stages that follow
BootFailures ==
    {"mknod /console", "open", "mknod /ubda", "mknod /null", "mknod /ttyN",
     "clearenv", "mkdir /host", "sigaction", "open /ubda",
     "read /ubda header", "bad /ubda header", "malloc config", "read config",
     "bad config"}
RandomFailures == {"mknod /random", "open /random", "ioctl /random"}
TtyFailures == {"open tty_raw", "tcgetattr", "tcsetattr"}
MountFailures == {"chdir", "mount"}
Count(op) == Len(SelectSeq(log, LAMBDA e : e.op = op))

\* C22: a step of the supervisor that fails prints its diagnostic and powers
\* the guest off, without sync, and nothing of the sequence follows it: what
\* was done is a beginning of the plan that ends before the failed step, so
\* nothing at all after a failure before or in the decode, no tty switch and
\* no Mount after a failed entropy injection, no Mount after a failed tty
\* switch, no later Mount after a failed Mount, and in all of these no Run.
C22_FailureIsFatal ==
    diag # "" =>
        /\ pc = "off"
        /\ log = Steps \o <<Ev("off", 0)>>
        /\ diag \in BootFailures => Steps = <<>>
        /\ diag \in RandomFailures => Steps = <<Ev("decode", 0)>>
        /\ diag \in TtyFailures =>
             Count("tty") = i /\ i < cfg.n_tty_raw /\ Count("mount") = 0
        /\ diag \in MountFailures => Count("mount") = i /\ i < cfg.n_mount
        /\ diag \in BootFailures \cup RandomFailures \cup TtyFailures
                    \cup MountFailures
              => /\ IsPrefix(Steps, Plan(cfg))
                 /\ Count("run") = 0
                 /\ procs = <<>>

\* the second of two Mounts has failed: the guest is off, the first Mount
\* is the last thing done and the Config's Runs were never started
C22_Witness ==
    /\ diag = "mount" /\ pc = "off"
    /\ cfg.n_mount = 2 /\ i = 1
    /\ Len(cfg.run) >= 1
    /\ log[Len(log) - 1] = Ev("mount", 1)
    /\ procs = <<>>

IoProcs == {io_cat, io_child}
SpecialDevices == {"/null", "/console", "/tty1"}
\* a process has done its redirections
Redirected(p) == p.pc \in {"hostify", "exec", "running"}

\* C23, as stated: a path of a Run's input, output or error that is none of
\* the special devices is resolved with /host as the root of the process
\* that opens it.
C23_OpenedUnderHost ==
    \A p \in IoProcs : \A n \in 0..2 :
        (p.fd[n].kind = "file" /\ p.fd[n].path \notin SpecialDevices)
            => p.fd[n].root = "/host"

\* C23, amended: every path of a Run's input, output or error, a special
\* device or not, is resolved under the guest's real root: it is opened
\* before the process changes its root to /host, which it has done when it
\* execs.
C23_OpenedUnderRealRoot ==
    \A p \in IoProcs :
        /\ \A n \in 0..2 : p.fd[n].kind = "file" => p.fd[n].root = "/"
        /\ p.pc \in {"in", "out", "err", "hostify"} => p.root = "/"
        /\ p.pc \in {"exec", "running"} => p.root = "/host"

\* the child runs under /host with an input that it opened as /f of the
\* real root
C23_Witness ==
    /\ io_child.pc = "running"
    /\ io_child.root = "/host"
    /\ io_run.input = "/f"
    /\ io_child.fd[0] = Opened("/f", "/")

\* what a process that opens output and error as the Run says has as 1, 2
OutputOf(r) == Opened(IF r.output = "" THEN "/null" ELSE r.output, "/")
ErrorOf(r) == IF r.error = "" THEN OutputOf(r) ELSE Opened(r.error, "/")

\* C24: after its redirections the main child's input is the Run's input,
\* /null when that is empty; without cat_output its output is the Run's
\* output, /null when empty, and its error the Run's error, the same open
\* file as its output when empty; with cat_output its output and error are
\* both the pipe's write end, and it is the auxiliary, reading the pipe's
\* read end, whose output and error are the Run's, with the same defaults.
C24_StdioDefaults ==
    /\ Redirected(io_child) =>
         /\ io_child.fd[0] =
               Opened(IF io_run.input = "" THEN "/null" ELSE io_run.input, "/")
         /\ io_run.cat_output =>
               io_child.fd[1] = PipeWrite /\ io_child.fd[2] = PipeWrite
         /\ ~io_run.cat_output =>
               /\ io_child.fd[1] = OutputOf(io_run)
               /\ io_child.fd[2] = ErrorOf(io_run)
    /\ Redirected(io_cat) =>
         /\ io_cat.fd[0] = PipeRead
         /\ io_cat.fd[1] = OutputOf(io_run)
         /\ io_cat.fd[2] = ErrorOf(io_run)
    /\ io_cat.pc # "none" => io_run.cat_output

\* a Run with cat_output, nothing but an error path given: child and
\* auxiliary both run, wired through the pipe
C24_Witness ==
    /\ io_run = [input |-> "", output |-> "", error |-> "/tty1",
                 cat_output |-> TRUE]
    /\ io_child.pc = "running" /\ io_cat.pc = "running"
    /\ io_child.fd = (0 :> Opened("/null", "/") @@ 1 :> PipeWrite
                      @@ 2 :> PipeWrite)
    /\ io_cat.fd = (0 :> PipeRead @@ 1 :> Opened("/null", "/")
                    @@ 2 :> Opened("/tty1", "/"))

\* C27: with cat_output the main child exists only when the auxiliary has
\* its input on the pipe, its output and error opened and its root changed.
C27_CatReadyBeforeChild ==
    (io_run.cat_output /\ io_child.pc # "none")
        => io_cat.pc \in {"exec", "running"}

\* the main child runs its program while the auxiliary has not taken a step
C27_ChildAhead ==
    /\ io_run.cat_output
    /\ io_child.pc = "running"
    /\ io_cat.pc = "in"
    /\ io_cat.fd[0] = Console

\* the kinds of config.proto's Limit.Resource by number
KindOf(r) ==
    CASE r = 1 -> "RLIMIT_AS" [] r = 2 -> "RLIMIT_CORE" [] r = 3 -> "RLIMIT_CPU"
      [] r = 4 -> "RLIMIT_DATA" [] r = 5 -> "RLIMIT_FSIZE"
      [] r = 6 -> "RLIMIT_MEMLOCK" [] r = 7 -> "RLIMIT_NOFILE"
      [] r = 8 -> "RLIMIT_NPROC" [] r = 9 -> "RLIMIT_STACK"
Ceiling(v) == IF v < 0 THEN [inf |-> TRUE, val |-> 0] ELSE [inf |-> FALSE, val |-> v]

\* C25: the setrlimit calls of a child are made for the Run's Limits in list
\* order, one for each; each call names the Limit's kind and takes the soft
\* value for the soft ceiling and the hard value for the hard ceiling, each
\* on its own: the value itself when it is not negative, unbounded when it
\* is; no call follows one that failed, and the child comes to its exec only
\* with a successful call for every Limit.
C25_LimitsApplied ==
    /\ Len(lim_calls) <= Len(lim_limit)
    /\ \A k \in DOMAIN lim_calls :
         /\ lim_limit[k].resource \in 1..9
         /\ lim_calls[k].resource = KindOf(lim_limit[k].resource)
         /\ lim_calls[k].cur = Ceiling(lim_limit[k].soft)
         /\ lim_calls[k].max = Ceiling(lim_limit[k].hard)
         /\ k < Len(lim_calls) => lim_calls[k].ret = 0
    /\ lim_pc \in {"exec", "running"} =>
         /\ Len(lim_calls) = Len(lim_limit)
         /\ \A k \in DOMAIN lim_calls : lim_calls[k].ret = 0
    /\ (\E k \in DOMAIN lim_calls : lim_calls[k].ret # 0) => lim_pc = "exited"

\* a child runs its program with two limits set: a CPU ceiling of 0 under
\* an unbounded hard limit, then a stack that is unbounded
C25_Witness ==
    /\ lim_pc = "running"
    /\ lim_limit = <<[resource |-> 3, soft |-> 0, hard |-> 0 - 1],
                     [resource |-> 9, soft |-> 0 - 1, hard |-> 0 - 1]>>
    /\ Len(lim_calls) = 2
    /\ lim_calls[1].cur = [inf |-> FALSE, val |-> 0]
    /\ lim_calls[1].max.inf
    /\ lim_calls[2].resource = "RLIMIT_STACK"

\* the steps of the child of a Run, in the order stated for them
StepOrder(r) ==
    <<"stdio", "env", "chdir root", "chroot">>
    \o (IF r.cwd # <<>> THEN <<"chdir cwd">> ELSE <<>>)
    \o (IF r.user THEN <<"setgid", "setuid">> ELSE <<>>)
    \o <<"limits", "exec">>

\* the steps taken, whatever the setenv calls returned
StepsTaken ==
    [k \in DOMAIN c_trace |->
        IF c_trace[k] = "env, a setenv failed" THEN "env" ELSE c_trace[k]]

\* C26, as stated: the program image is exec'd only if every step before it
\* succeeded, the environment overrides among them
C26_ExecAfterAllSucceeded ==
    c_pc = "running" => c_trace = StepOrder(c_run)

\* C26: the child takes its steps in the order stdio, environment, chdir
\* /host and chroot, chdir cwd, setgid, setuid, limits, exec; the program
\* image is exec'd only if every step before it other than an environment
\* override succeeded, so it runs under the confinement root, with the
\* derived ids when user is set, and with every limit applied
C26_ChildStepOrder ==
    /\ StepsTaken = SubSeq(StepOrder(c_run), 1, Len(c_trace))
    /\ c_pc = "running" =>
         /\ StepsTaken = StepOrder(c_run)
         /\ c_run.user => c_cred = c_id

C26_Witness ==
    /\ c_pc = "running"
    /\ c_run.user /\ c_run.cwd # <<>> /\ c_run.limit # <<>>
    /\ c_trace[2] = "env, a setenv failed"
    /\ c_cred = c_id /\ c_id.uid # 0

\* C28: the step that reads the hard-timeout byte sends a forced kill
\* signal to every process of the awaited Run that is still running, so
\* that none of them is left as it was when the supervisor goes on
C28_HardTokenKills ==
    [][ReadsByte("Y") =>
         \A p \in DOMAIN procs :
             (procs[p].run = i + 1 /\ procs[p].st = "running")
                 => procs'[p] # procs[p]]_vars

\* the supervisor has gone on after the hard-timeout byte; the awaited
\* child and cat are running, the cat having been sent no signal at all
C28_LeftRunning ==
    /\ hard /\ pc = "sync"
    /\ cat # -1 /\ child # -1
    /\ procs[child].st = "running" /\ procs[child].term = 1
    /\ procs[cat].st = "running" /\ procs[cat].term = 0

\* every child the wait loop still awaits has exited
AllExited ==
    /\ pc \in {"waitpid", "ppoll"}
    /\ child_running => procs[child].st = "zombie"
    /\ cat_running => procs[cat].st = "zombie"

\* C29: whatever the interleaving of the exits with the waitpid/ppoll loop,
\* the supervisor is never in ppoll with an exited child and no SIGCHLD
\* pending; it leaves the loop without a hard-timeout byte only with the
\* main child and the cat both reaped; and once every awaited child has
\* exited it leaves the loop
C29_WakeupInv ==
    /\ (pc = "ppoll" /\ Zombies # {}) => sigchld_pending
    /\ (pc = "ret" /\ ~hard) =>
         /\ Reaped(child)
         /\ cat # -1 => Reaped(cat)

C29_NoLostWakeup ==
    /\ []C29_WakeupInv
    /\ AllExited ~> pc \notin {"waitpid", "ppoll"}

\* both exited after the waitpid that found nothing: one SIGCHLD pending for
\* the two
C29_Witness ==
    /\ pc = "ppoll" /\ cat # -1
    /\ procs[child].st = "zombie" /\ procs[cat].st = "zombie"
    /\ sigchld_pending /\ ctrl = <<>>

\* C30, as stated: a token that arrived before the wait loop of a
\* foreground Run has been consumed when that loop is left
C30_ConsumedByNextWait ==
    [][(pc \in {"waitpid", "ppoll"} /\ pc' = "ret") => ctrl' = <<>>]_vars

\* the wait loop of a foreground Run was left without a poll, its children
\* reaped, and the token that arrived before it is still in the pipe
C30_TokenSkipped ==
    /\ pc = "ret" /\ ~timed_out /\ ~run.daemon
    /\ ctrl = <<"N">>
    /\ Reaped(child)

C30_TokenInv ==
    /\ ctrl \in {<<>>, <<"N">>, <<"Y">>, <<"N", "Y">>}
    /\ Len(ctrl) <= sent
    /\ timed_out => sent > Len(ctrl)

C30_TokenStep ==
    /\ pc \notin {"ppoll", "off"} =>
         \/ ctrl' = ctrl
         \/ Len(ctrl') = Len(ctrl) + 1 /\ SubSeq(ctrl', 1, Len(ctrl)) = ctrl
    /\ (pc = "ppoll" /\ ctrl' # ctrl) =>
         /\ Foreground(i + 1)
         /\ ctrl' = Tail(ctrl)
         /\ timed_out'
         /\ i' = i
         /\ IF Head(ctrl) = "Y"
            THEN hard' /\ pc' = "ret" /\ procs' = procs
            ELSE /\ pc' = "waitpid"
                 /\ procs' = IF child_running
                             THEN [procs EXCEPT ![child].term = @ + 1]
                             ELSE procs

\* C30: a token that arrives while the supervisor is not in a foreground
\* wait is not lost: it stays in the pipe, in order, through every step up
\* to a poll of a foreground Run's wait loop, which reads one token and
\* applies it to the Run it waits for (SIGTERM to its main child while that
\* is not reaped for a soft token, leaving the loop for a hard token); a
\* wait loop that reaps its children before it polls leaves the token to
\* the next one
C30_TokenNotLost == []C30_TokenInv /\ [][C30_TokenStep]_vars

\* both tokens arrived after a daemon Run; the wait of the foreground Run
\* that follows has read the first and keeps the second
C30_Witness ==
    /\ i = 1 /\ Len(cfg.run) = 2 /\ child # -1
    /\ cfg.run[1].daemon /\ ~cfg.run[2].daemon
    /\ pc = "waitpid" /\ timed_out /\ ~hard
    /\ procs[child].term = 1 /\ procs[child].run = 2
    /\ ctrl = <<"Y">>

C31_TimedOutInv ==
    timed_out =>
        /\ pc \in {"waitpid", "ppoll", "ret", "sync", "off"}
        /\ \A p \in DOMAIN procs : procs[p].run <= i + 1
        /\ pc = "sync" => (Len(returned) = i + 1 /\ returned[i + 1])
        /\ (pc = "off" /\ diag = "") =>
             /\ Len(returned) = i + 1 /\ returned[i + 1]
             /\ Ending = <<Ev("sync", 0), Ev("off", 0)>>

C31_TimedOutStep ==
    /\ timed_out => (timed_out' /\ i' = i /\ Len(procs') = Len(procs))
    /\ (timed_out /\ pc = "ret" /\ pc' # "ret") =>
         (pc' = "sync" /\ returned' = Append(returned, TRUE))

\* C31: once a control byte has been read in the wait of a foreground Run,
\* the Run stays timed out: also when only the soft-timeout byte was read
\* and the child and the cat were then reaped, handle_run returns true, no
\* further Run is started and the supervisor syncs and powers off
C31_SoftTimeoutReported == []C31_TimedOutInv /\ [][C31_TimedOutStep]_vars

\* only the soft byte was read, the child ended and was reaped, a Run was
\* left to do, and the guest is off
C31_Witness ==
    /\ pc = "off" /\ diag = "" /\ timed_out /\ ~hard
    /\ i + 1 < Len(cfg.run)
    /\ Reaped(child) /\ procs[child].term = 1
    /\ returned[i + 1]

\* C32: when handle_run has returned for a Run, foreground or daemon, the
\* supervisor holds neither end of that Run's cat pipe
C32_PipeClosedOnReturn ==
    \A k \in pipes : Len(returned) < k

\* the same for foreground Runs alone, whose pipe lines 295-298 close
C32_ForegroundPipeClosed ==
    \A k \in pipes : Len(returned) < k \/ cfg.run[k].daemon

\* handle_run has returned for a daemon Run with cat_output; its child has
\* ended, its cat runs on, and the supervisor holds the pipe
C32_PipeLeaked ==
    /\ Len(returned) >= 1 /\ 1 \in pipes
    /\ cfg.run[1].daemon /\ cfg.run[1].cat_output
    /\ Len(procs) >= 2
    /\ procs[1].kind = "cat" /\ procs[1].st = "running"
    /\ procs[2].kind = "child" /\ procs[2].st = "zombie"

TvRunning(p) == tv_procs[p].st = "running"
TvSent(p, sig) == \E k \in DOMAIN tv_procs[p].sigs : tv_procs[p].sigs[k] = sig

\* C33: in the init with its own timer, whenever the timer has expired with
\* the child or the cat running, SIGTERM is eventually sent to it unless it
\* ends; whenever the grace timer has expired too, SIGKILL is eventually
\* sent to it unless it ends; wherever the supervisor is when the timer
\* signal is delivered; and SIGKILL is never sent before SIGTERM
C33_TimerEscalates ==
    /\ [](\A p \in {"child", "cat"} :
            \A k \in DOMAIN tv_procs[p].sigs :
                tv_procs[p].sigs[k] = "KILL" =>
                    \E j \in 1..(k - 1) : tv_procs[p].sigs[j] = "TERM")
    /\ \A p \in {"child", "cat"} :
         /\ (timeout_phase >= 1 /\ TvRunning(p))
                ~> (~TvRunning(p) \/ TvSent(p, "TERM") \/ tv_pc = "off")
         /\ (timeout_phase >= 3 /\ TvRunning(p))
                ~> (~TvRunning(p) \/ TvSent(p, "KILL") \/ tv_pc = "off")

\* the same order of the two signals, on its own
C33_KillAfterTerm ==
    \A p \in {"child", "cat"} :
        /\ TvSent(p, "KILL") => tv_procs[p].sigs = <<"TERM", "KILL">>
        /\ tv_procs[p].sigs \in {<<>>, <<"TERM">>, <<"TERM", "KILL">>}

\* the timer went off outside wait(0): the supervisor is blocked in wait(0),
\* no timer is armed, the child runs and has been sent nothing
C33_MissedTimer ==
    /\ tv_pc = "wait" /\ timeout_phase = 1 /\ timeout_timer = "idle"
    /\ TvRunning("child") /\ tv_procs["child"].sigs = <<>>

\* the timer went off inside wait(0) both times: SIGTERM, then SIGKILL
C33_Escalated ==
    /\ timeout_phase = 3
    /\ tv_procs["child"].sigs = <<"TERM", "KILL">>

====
